---- MODULE Spec2Model ----
(***************************************************************************)
(* State-machine model of the acquisition core of twd_webisodes_gui.py:    *)
(* EnhancedDownloader.download_webisode and what it calls                  *)
(* (download_with_source_retry, AlternativeSourceFinder.find_alternatives, *)
(* test_source) together with the download_stats counters.                 *)
(*                                                                         *)
(* The external capabilities are nondeterministic inputs:                  *)
(*   fetch  : ydl.download either completes or raises (DownloadError or    *)
(*            another Exception);                                          *)
(*   search : search_archive_org / search_alternative_youtube return some  *)
(*            list of URLs (the archive list without repeats);             *)
(*   probe  : ydl.extract_info returns info, returns nothing, or raises.   *)
(* The log and progress callbacks are taken to return normally; then       *)
(* find_alternatives, test_source and download_with_source never raise and *)
(* the "except Exception" of download_webisode is never entered.           *)
(*                                                                         *)
(* A URL is an opaque string that the code only compares for equality; it  *)
(* is modelled by a number.  Known sources carry the numbers 1..n of their *)
(* position in the item's list; discovered URLs are numbered in the order  *)
(* in which a discovery first meets them.                                  *)
(***************************************************************************)
EXTENDS Integers, Sequences, FiniteSets, TLC

\* ------------------------------------------------------------------ bounds
\* Spec: download_webisode calls made in one behaviour
MaxItems == 3
\* the priorities known sources carry
MaxPriority == 2
\* SpecItem: known sources of the item
MaxKnown == 3
\* SpecDiscovery: distinct URLs the archive search holds, and returns for one query
WideUrls == 6
WideHits == 2
\* SpecRetry: the largest max_attempts a download_with_source_retry call is given
MaxTries == 4
\* SpecRelevance: the longest of the generated titles, and one more than the longest
\* of the generated queries
MaxTitleLen == 3
\* delays are counted in 1/Tick s: the jitter takes the values 0/Tick .. (Tick-1)/Tick
Tick == 2

\* --------------------------------------------------------- program constants
\* download_with_source: max_attempts=3
MaxAttempts == 3
\* find_alternatives: the four query variants
NumQueries == 4
\* find_alternatives: if len(alternative_sources) >= 8: break
AlternativesCap == 8
\* search_archive_org: return urls[:10]
ArchiveTop == 10
\* search_alternative_youtube: search_results['entries'][:5]
YoutubeTop == 5
\* download_webisode: alternative_sources[:5]
TestTop == 5
\* download_webisode: time.sleep(1) after a failed known source
KnownPause == 1
\* download_webisode: time.sleep(2) after a failed alternative
AlternativePause == 2
\* AlternativeSourceFinder.__init__: self.max_retries = 3
MaxRetries == 3
\* search_archive_org: the five search_strategies
NumStrategies == 5
\* search_archive_org: if len(urls) >= 20: break
ArchiveUrlsCap == 20
\* download_with_source_retry: timeout = 30 + (attempt * 15)
BaseTimeout == 30
TimeoutStep == 15
\* test_source: 'socket_timeout': 10
ProbeTimeout == 10
\* download_webisode: max_retries: int = 3
DefaultMaxRetries == 3
\* download_with_source_retry: base_delay=2.0 after a DownloadError
DownloadErrorBase == 2
\* download_with_source_retry: base_delay=1.0 after any other exception
UnexpectedErrorBase == 1

VARIABLES
    download_stats,       \* EnhancedDownloader.download_stats
    pc,                   \* position of the download_webisode call, "idle" between calls
    webisode,             \* the item of the current (or last) call
    all_sources,          \* download_webisode: sorted(webisode.sources)
    si,                   \* index of the source loop (known or working alternatives)
    source,               \* download_with_source_retry: the source being fetched
    attempt,              \* download_with_source_retry: the loop variable
    phase,                \* which loop called download_with_source: "known" | "alt"
    qi,                   \* find_alternatives: index of the query variant
    alternative_sources,  \* find_alternatives: the accumulated list
    unique_sources,       \* the list find_alternatives returned
    ti,                   \* download_webisode: index of the probing loop
    working_alternatives, \* download_webisode: the probed-reachable alternatives
    ret,                  \* return value of the last call: "None" | "True" | "False"
    calls,                \* number of download_webisode calls so far
    entry,                \* history: download_stats when the current call began
    trace,                \* history: events of the current (or last) call
    downloading,          \* TWDWebisodeDownloaderGUI.downloading
    worker,               \* position of the download thread in download_webisodes
    total_webisodes,      \* download_webisodes: len(webisodes)
    run_i,                \* download_webisodes: the loop index i
    run_entry,            \* history: download_stats when the run began
    cancelled,            \* history: where the thread was when downloading was cleared
    workers,              \* history: download threads started and not yet ended
    start_result,         \* history: how the last start_download call ended
    mkdir_calls,          \* history: mkdir calls of the last start_download call not refused
    run_end,              \* history: how the current (or last) run left its try block
    retry_pc,             \* position in a download_with_source_retry call
    max_attempts,         \* download_with_source_retry: max_attempts
    retry_source,         \* download_with_source_retry: source.url
    retry_attempt,        \* download_with_source_retry: the loop variable attempt
    retry_ret,            \* download_with_source_retry: the value returned
    retry_log,            \* history: fetches and sleeps of the current (or last) call
    rel_query,            \* _is_relevant_result: query
    rel_title,            \* _is_relevant_result: title
    rel_result,           \* _is_relevant_result: the value returned
    srch_pc,              \* position of find_alternatives inside one query variant
    strategy,             \* search_archive_org: index of the search strategy
    search_attempt,       \* search_archive_org: the loop variable attempt
    found_urls,           \* search_archive_org: urls
    archive_requests,     \* history: session.get calls of this search_archive_org call
    archive_ok,           \* history: a response with status 200 was read in this call
    youtube_requests,     \* history: extract_info calls of the last YouTube search
    youtube_failed,       \* history: the last search_alternative_youtube call raised
    max_retries           \* download_webisode: the argument max_retries of the call

\* the state of the downloader and of one download_webisode call
core == <<download_stats, pc, webisode, all_sources, si, source, attempt, phase,
          qi, alternative_sources, unique_sources, ti, working_alternatives,
          ret, calls, entry, trace>>

\* the state of the GUI's download run
gui == <<downloading, worker, total_webisodes, run_i, run_entry, cancelled, workers,
         start_result, mkdir_calls, run_end>>

\* the state of one download_with_source_retry call with any max_attempts
retry == <<retry_pc, max_attempts, retry_source, retry_attempt, retry_ret, retry_log>>

\* the arguments and the result of one _is_relevant_result call
relevance == <<rel_query, rel_title, rel_result>>

\* the state of the two searches of one query variant
search == <<srch_pc, strategy, search_attempt, found_urls, archive_requests, archive_ok,
            youtube_requests, youtube_failed>>

\* the arguments of download_webisode the callers leave at their defaults
args == <<max_retries>>

vars == <<core, gui, retry, relevance, search, args>>

\* ------------------------------------------------------------------ helpers
Min(a, b) == IF a <= b THEN a ELSE b

Max(a, b) == IF a >= b THEN a ELSE b

\* s[:n]
Take(s, n) == SubSeq(s, 1, Min(n, Len(s)))

\* WebisodeSource(url, source_type, priority=..., working=None)
WebisodeSource(url, source_type, priority) ==
    [url |-> url, source_type |-> source_type, priority |-> priority, working |-> "None"]

NoSource == WebisodeSource(0, "none", 0)

\* Webisode: only the sources list is read by the core
Webisode(sources) == [title |-> "t", sources |-> sources]

\* the sources lists of at most n known sources with priorities 1..MaxPriority
KnownLists(n) ==
    UNION {[1..k -> 1..MaxPriority] : k \in 0..n}

MakeSources(prios) ==
    [i \in 1..Len(prios) |-> WebisodeSource(i, "generic", prios[i])]

Catalog(n) == {Webisode(MakeSources(p)) : p \in KnownLists(n)}

\* one event of the history
Event(op, known, src, n, res) ==
    [op |-> op, known |-> known, url |-> src.url, priority |-> src.priority,
     n |-> n, res |-> res]

ZeroStats == [attempted |-> 0, successful |-> 0, failed |-> 0, alternatives_used |-> 0]

Bump(stats, key) == [stats EXCEPT ![key] = @ + 1]

\* ------------------------------------------------------- pure functions
\* mutant of sorted: the sources are tried in list order
sorted_Unsorted(s) == s

\* list.sort / sorted are stable: an element goes after the equal ones before it
RECURSIVE InsertByPriority(_, _)
InsertByPriority(x, s) ==
    IF s = <<>> THEN <<x>>
    ELSE IF x.priority < Head(s).priority THEN <<x>> \o s
    ELSE <<Head(s)>> \o InsertByPriority(x, Tail(s))

\* mutant of sorted: an element goes before the equal ones before it
RECURSIVE InsertBeforeEquals(_, _)
InsertBeforeEquals(x, s) ==
    IF s = <<>> THEN <<x>>
    ELSE IF x.priority <= Head(s).priority THEN <<x>> \o s
    ELSE <<Head(s)>> \o InsertBeforeEquals(x, Tail(s))

RECURSIVE sorted_Unstable(_)
sorted_Unstable(s) ==
    IF s = <<>> THEN <<>>
    ELSE InsertBeforeEquals(s[Len(s)], sorted_Unstable(SubSeq(s, 1, Len(s) - 1)))

\* sorted(webisode.sources, key=lambda x: x.priority)
RECURSIVE sorted(_)
sorted(s) ==
    IF s = <<>> THEN <<>>
    ELSE InsertByPriority(s[Len(s)], sorted(SubSeq(s, 1, Len(s) - 1)))

\* mutant of RemoveDuplicates: nothing is removed
RemoveDuplicates_None(s, seen_urls) == s

\* find_alternatives: the "Remove duplicates" loop (first occurrence of a URL wins)
RECURSIVE RemoveDuplicates(_, _)
RemoveDuplicates(s, seen_urls) ==
    IF s = <<>> THEN <<>>
    ELSE IF Head(s).url \in seen_urls THEN RemoveDuplicates(Tail(s), seen_urls)
    ELSE <<Head(s)>> \o RemoveDuplicates(Tail(s), seen_urls \cup {Head(s).url})

SetMax(S) == CHOOSE x \in S : \A y \in S : y <= x

\* the highest URL number met so far
Highest(hi, urls) == SetMax({hi} \cup {urls[i] : i \in 1..Len(urls)})

\* URLs are numbered in first-met order: a result is a URL met before or the next new one
FirstMetOrder(hi, urls) ==
    \A i \in 1..Len(urls) : urls[i] <= 1 + Highest(hi, SubSeq(urls, 1, i - 1))

NoRepeat(urls) ==
    \A i, j \in 1..Len(urls) : i # j => urls[i] # urls[j]

UrlLists(n, len) == UNION {[1..k -> 1..n] : k \in 0..len}

\* what search_archive_org can return: at most 10 URLs, no URL twice
ArchiveResults(hi, n, hits) ==
    {u \in UrlLists(n, Min(hits, ArchiveTop)) : NoRepeat(u) /\ FirstMetOrder(hi, u)}

\* what search_alternative_youtube can return: at most 5 URLs
YoutubeResults(hi, n, hits) ==
    {u \in UrlLists(n, Min(hits, YoutubeTop)) : FirstMetOrder(hi, u)}

\* mutant of SourcesOf: the priority is the position in the result list
SourcesOf_ByPosition(urls, source_type, priority) ==
    [i \in 1..Len(urls) |-> WebisodeSource(urls[i], source_type, i)]

\* find_alternatives: the sources appended for one capability's URLs
SourcesOf(urls, source_type, priority) ==
    [i \in 1..Len(urls) |-> WebisodeSource(urls[i], source_type, priority)]

\* find_alternatives: one iteration of "for query in queries" up to the cap check
AfterQuery(acc, archive_urls, youtube_urls) ==
    acc \o SourcesOf(archive_urls, "archive", 1) \o SourcesOf(youtube_urls, "youtube", 2)

\* ------------------------------------------------------ _is_relevant_result
\* strings are sequences of characters
UpperCase ==
    <<"A", "B", "C", "D", "E", "F", "G", "H", "I", "J", "K", "L", "M",
      "N", "O", "P", "Q", "R", "S", "T", "U", "V", "W", "X", "Y", "Z">>

LowerCase ==
    <<"a", "b", "c", "d", "e", "f", "g", "h", "i", "j", "k", "l", "m",
      "n", "o", "p", "q", "r", "s", "t", "u", "v", "w", "x", "y", "z">>

\* str.lower()
lower(s) ==
    [i \in 1..Len(s) |->
        IF \E k \in 1..Len(UpperCase) : UpperCase[k] = s[i]
        THEN LowerCase[CHOOSE k \in 1..Len(UpperCase) : UpperCase[k] = s[i]]
        ELSE s[i]]

\* the "in" of two strings: needle occurs in hay at some offset
Contains(needle, hay) ==
    \E k \in 0..(Len(hay) - Len(needle)) : SubSeq(hay, k + 1, k + Len(needle)) = needle

\* _is_relevant_result: twd_keywords
twd_keywords ==
    <<<<"w", "a", "l", "k", "i", "n", "g", " ", "d", "e", "a", "d">>,
      <<"t", "w", "d">>,
      <<"w", "e", "b", "i", "s", "o", "d", "e">>,
      <<"t", "o", "r", "n", " ", "a", "p", "a", "r", "t">>,
      <<"c", "o", "l", "d", " ", "s", "t", "o", "r", "a", "g", "e">>,
      <<"t", "h", "e", " ", "o", "a", "t", "h">>,
      <<"r", "e", "d", " ", "m", "a", "c", "h", "e", "t", "e">>,
      <<"f", "l", "i", "g", "h", "t", " ", "4", "6", "2">>,
      <<"p", "a", "s", "s", "a", "g", "e">>,
      <<"a", "l", "t", "h", "e", "a">>,
      <<"m", "a", "d", "m", "a", "n">>,
      <<"d", "e", "a", "d", " ", "i", "n", " ", "t", "h", "e", " ", "w", "a", "t",
        "e", "r">>,
      <<"f", "e", "a", "r">>>>

\* mutant of is_relevant_result: the title is compared as it is written
is_relevant_result_CaseSensitive(query, title) ==
    IF title = <<>> THEN FALSE
    ELSE IF Contains(lower(query), title) THEN TRUE
    ELSE \E k \in 1..Len(twd_keywords) : Contains(twd_keywords[k], title)

\* _is_relevant_result(query, title)
is_relevant_result(query, title) ==
    IF title = <<>> THEN FALSE
    ELSE LET title_lower == lower(title)
             query_lower == lower(query)
         IN IF Contains(query_lower, title_lower) THEN TRUE
            ELSE \E k \in 1..Len(twd_keywords) : Contains(twd_keywords[k], title_lower)

\* the query and the two titles of the specification's example
TornApart ==
    <<"T", "o", "r", "n", " ", "A", "p", "a", "r", "t">>

UnrelatedShow ==
    <<"U", "n", "r", "e", "l", "a", "t", "e", "d", " ", "S", "h", "o", "w", " ", "E",
      "p", "i", "s", "o", "d", "e", " ", "3">>

TornApartPartOne ==
    <<"T", "h", "e", " ", "W", "a", "l", "k", "i", "n", "g", " ", "D", "e", "a", "d",
      ":", " ", "T", "o", "r", "n", " ", "A", "p", "a", "r", "t", " ", "P", "a", "r",
      "t", " ", "1">>

\* the strings of at most n of four characters
ShortStrings(n) == UNION {[1..k -> {"t", "w", "d", "T"}] : k \in 0..n}

Queries == {TornApart, lower(TornApart)} \cup ShortStrings(MaxTitleLen - 1)

Titles == {UnrelatedShow, TornApartPartOne, lower(TornApartPartOne)}
              \cup ShortStrings(MaxTitleLen)

\* _is_relevant_result is called with some query and some title; the function keeps
\* no state, so the calls made from the initial state are all there are
Relevance ==
    /\ rel_result = "None"
    /\ \E query \in Queries : \E title \in Titles :
        /\ rel_query' = query
        /\ rel_title' = title
        /\ rel_result' = IF is_relevant_result(query, title) THEN "True" ELSE "False"

\* ------------------------------------------------------------------ state
\* history value: downloading has not been cleared during the run
NotCancelled == [at |-> "none", i |-> 0, pc |-> "idle"]

Init ==
    /\ download_stats = ZeroStats
    /\ pc = "idle"
    /\ webisode = Webisode(<<>>)
    /\ all_sources = <<>>
    /\ si = 0
    /\ source = NoSource
    /\ attempt = 0
    /\ phase = "known"
    /\ qi = 0
    /\ alternative_sources = <<>>
    /\ unique_sources = <<>>
    /\ ti = 0
    /\ working_alternatives = <<>>
    /\ ret = "None"
    /\ calls = 0
    /\ entry = ZeroStats
    /\ trace = <<>>
    /\ downloading = FALSE
    /\ worker = "none"
    /\ total_webisodes = 0
    /\ run_i = 0
    /\ run_entry = ZeroStats
    /\ cancelled = NotCancelled
    /\ workers = 0
    /\ start_result = "none"
    /\ mkdir_calls = 0
    /\ run_end = "none"
    /\ retry_pc = "idle"
    /\ max_attempts = 0
    /\ retry_source = 0
    /\ retry_attempt = 0
    /\ retry_ret = "None"
    /\ retry_log = <<>>
    /\ rel_query = <<>>
    /\ rel_title = <<>>
    /\ rel_result = "None"
    /\ srch_pc = "none"
    /\ strategy = 0
    /\ search_attempt = 0
    /\ found_urls = <<>>
    /\ archive_requests = 0
    /\ archive_ok = FALSE
    /\ youtube_requests = 0
    /\ youtube_failed = FALSE
    /\ max_retries = DefaultMaxRetries

\* the locals of a call are gone when it returns
Return(value, stats, events) ==
    /\ pc' = "idle"
    /\ ret' = value
    /\ download_stats' = stats
    /\ trace' = events
    /\ all_sources' = <<>>
    /\ si' = 0
    /\ source' = NoSource
    /\ attempt' = 0
    /\ phase' = "known"
    /\ qi' = 0
    /\ alternative_sources' = <<>>
    /\ unique_sources' = <<>>
    /\ ti' = 0
    /\ working_alternatives' = <<>>
    /\ UNCHANGED <<webisode, calls, entry>>

\* mutant of Call: attempted is not counted
Call_NotCounted(catalog, max_calls) ==
    /\ pc = "idle"
    /\ calls < max_calls
    /\ \E w \in catalog :
        /\ webisode' = w
        /\ all_sources' = sorted(w.sources)
    /\ entry' = download_stats
    /\ calls' = calls + 1
    /\ ret' = "None"
    /\ trace' = <<>>
    /\ si' = 1
    /\ phase' = "known"
    /\ pc' = "known"
    /\ UNCHANGED <<download_stats, source, attempt, qi, alternative_sources,
                   unique_sources, ti, working_alternatives>>

\* download_webisode entered: attempted += 1, the sources sorted by priority
Call(catalog, max_calls) ==
    /\ pc = "idle"
    /\ calls < max_calls
    /\ \E w \in catalog :
        /\ webisode' = w
        /\ all_sources' = sorted(w.sources)
    /\ download_stats' = Bump(download_stats, "attempted")
    /\ entry' = download_stats
    /\ calls' = calls + 1
    /\ ret' = "None"
    /\ trace' = <<>>
    /\ si' = 1
    /\ phase' = "known"
    /\ pc' = "known"
    /\ UNCHANGED <<source, attempt, qi, alternative_sources, unique_sources, ti,
                   working_alternatives>>

\* mutant of NextKnownSource: the source loop looks at downloading too and abandons
\* the item when it is clear
NextKnownSource_ChecksFlag ==
    /\ pc = "known"
    /\ si <= Len(all_sources)
    /\ IF downloading
          THEN /\ source' = all_sources[si]
               /\ attempt' = 0
               /\ pc' = "fetch"
               /\ UNCHANGED <<download_stats, webisode, all_sources, si, phase, qi,
                              alternative_sources, unique_sources, ti,
                              working_alternatives, ret, calls, entry, trace>>
          ELSE Return("False", download_stats, trace)

\* download_webisode entered with some value of max_retries
CallWithRetries(catalog, max_calls) ==
    /\ Call(catalog, max_calls)
    /\ \E n \in 0..MaxTries : max_retries' = n

\* "for source in all_sources": download_with_source called on the next known source
NextKnownSource ==
    /\ pc = "known"
    /\ si <= Len(all_sources)
    /\ source' = all_sources[si]
    /\ attempt' = 0
    /\ pc' = "fetch"
    /\ UNCHANGED <<download_stats, webisode, all_sources, si, phase, qi,
                   alternative_sources, unique_sources, ti, working_alternatives,
                   ret, calls, entry, trace>>

\* mutant of KnownExhausted: the loop is left one source early
KnownExhausted_Early ==
    /\ pc = "known"
    /\ si >= Len(all_sources)
    /\ trace' = Append(trace, Event("discover", FALSE, NoSource, 0, ""))
    /\ qi' = 1
    /\ alternative_sources' = <<>>
    /\ pc' = "search"
    /\ UNCHANGED <<download_stats, webisode, all_sources, si, source, attempt, phase,
                   unique_sources, ti, working_alternatives, ret, calls, entry>>

\* the known loop ran out: find_alternatives is called
KnownExhausted ==
    /\ pc = "known"
    /\ si > Len(all_sources)
    /\ trace' = Append(trace, Event("discover", FALSE, NoSource, 0, ""))
    /\ qi' = 1
    /\ alternative_sources' = <<>>
    /\ pc' = "search"
    /\ UNCHANGED <<download_stats, webisode, all_sources, si, source, attempt, phase,
                   unique_sources, ti, working_alternatives, ret, calls, entry>>

\* mutant of FetchSucceeds: the success of an alternative is not counted
FetchSucceeds_KnownOnlyCounted ==
    /\ pc = "fetch"
    /\ Return("True",
              IF phase = "known" THEN Bump(download_stats, "successful") ELSE download_stats,
              Append(trace, Event("fetch", phase = "known", source, attempt, "ok")))

\* mutant of FetchSucceeds: the loop goes on to the next source after a success
FetchSucceeds_NoReturn ==
    /\ pc = "fetch"
    /\ trace' = Append(trace, Event("fetch", phase = "known", source, attempt, "ok"))
    /\ si' = si + 1
    /\ pc' = phase
    /\ UNCHANGED <<download_stats, webisode, all_sources, source, attempt, phase, qi,
                   alternative_sources, unique_sources, ti, working_alternatives,
                   ret, calls, entry>>

\* download_with_source_retry: ydl.download completed, the call returns True at once
\* and download_webisode returns True with successful += 1
FetchSucceeds ==
    /\ pc = "fetch"
    /\ Return("True", Bump(download_stats, "successful"),
              Append(trace, Event("fetch", phase = "known", source, attempt, "ok")))

\* mutant of FetchRetries: a source gets one attempt more
FetchRetries_OneMore ==
    /\ pc = "fetch"
    /\ attempt < MaxAttempts
    /\ trace' = trace \o <<Event("fetch", phase = "known", source, attempt, "fail"),
                            Event("backoff", phase = "known", source, attempt, "")>>
    /\ attempt' = attempt + 1
    /\ UNCHANGED <<download_stats, pc, webisode, all_sources, si, source, phase, qi,
                   alternative_sources, unique_sources, ti, working_alternatives,
                   ret, calls, entry>>

\* download_with_source_retry: ydl.download raised (DownloadError or any other
\* Exception, handled alike) and attempts are left: back off, then retry
FetchRetries ==
    /\ pc = "fetch"
    /\ attempt < MaxAttempts - 1
    /\ trace' = trace \o <<Event("fetch", phase = "known", source, attempt, "fail"),
                            Event("backoff", phase = "known", source, attempt, "")>>
    /\ attempt' = attempt + 1
    /\ UNCHANGED <<download_stats, pc, webisode, all_sources, si, source, phase, qi,
                   alternative_sources, unique_sources, ti, working_alternatives,
                   ret, calls, entry>>

\* mutant of FetchGivesUp: the error of the last attempt is not caught and leaves
\* download_webisode
FetchGivesUp_Raises ==
    /\ pc = "fetch"
    /\ attempt >= MaxAttempts - 1
    /\ Return("Raised", download_stats,
              Append(trace, Event("fetch", phase = "known", source, attempt, "fail")))

\* mutant of FetchGivesUp: the source that failed is marked as not working
FetchGivesUp_MarksSource ==
    /\ pc = "fetch"
    /\ attempt >= MaxAttempts - 1
    /\ trace' = trace \o <<Event("fetch", phase = "known", source, attempt, "fail"),
                            Event("pace", phase = "known", source,
                                  IF phase = "known" THEN KnownPause ELSE AlternativePause, "")>>
    /\ all_sources' = IF phase = "known"
                         THEN [all_sources EXCEPT ![si].working = "False"]
                         ELSE all_sources
    /\ si' = si + 1
    /\ pc' = phase
    /\ UNCHANGED <<download_stats, webisode, source, attempt, phase, qi,
                   alternative_sources, unique_sources, ti, working_alternatives,
                   ret, calls, entry>>

\* mutant of FetchGivesUp: max_retries is the number of attempts a source gets
FetchGivesUp_UsesMaxRetries ==
    /\ pc = "fetch"
    /\ attempt >= max_retries - 1
    /\ trace' = trace \o <<Event("fetch", phase = "known", source, attempt, "fail"),
                            Event("pace", phase = "known", source,
                                  IF phase = "known" THEN KnownPause ELSE AlternativePause, "")>>
    /\ si' = si + 1
    /\ pc' = phase
    /\ UNCHANGED <<download_stats, webisode, all_sources, source, attempt, phase, qi,
                   alternative_sources, unique_sources, ti, working_alternatives,
                   ret, calls, entry>>

\* mutant of FetchGivesUp: the pause after an alternative is that after a known source
FetchGivesUp_SamePause ==
    /\ pc = "fetch"
    /\ attempt >= MaxAttempts - 1
    /\ trace' = trace \o <<Event("fetch", phase = "known", source, attempt, "fail"),
                            Event("pace", phase = "known", source, KnownPause, "")>>
    /\ si' = si + 1
    /\ pc' = phase
    /\ UNCHANGED <<download_stats, webisode, all_sources, source, attempt, phase, qi,
                   alternative_sources, unique_sources, ti, working_alternatives,
                   ret, calls, entry>>

\* download_with_source_retry: the last attempt raised, the call returns False;
\* the caller's loop pauses and goes on to its next source
FetchGivesUp ==
    /\ pc = "fetch"
    /\ attempt >= MaxAttempts - 1
    /\ trace' = trace \o <<Event("fetch", phase = "known", source, attempt, "fail"),
                            Event("pace", phase = "known", source,
                                  IF phase = "known" THEN KnownPause ELSE AlternativePause, "")>>
    /\ si' = si + 1
    /\ pc' = phase
    /\ UNCHANGED <<download_stats, webisode, all_sources, source, attempt, phase, qi,
                   alternative_sources, unique_sources, ti, working_alternatives,
                   ret, calls, entry>>

\* mutant of SearchReturns: the "if len(alternative_sources) >= 8: break" is missing
SearchReturns_NoCap(archive_urls, youtube_urls) ==
    /\ pc = "search"
    /\ LET acc == AfterQuery(alternative_sources, archive_urls, youtube_urls)
       IN IF qi = NumQueries
          THEN /\ unique_sources' = RemoveDuplicates(acc, {})
               /\ alternative_sources' = acc
               /\ qi' = qi
               /\ trace' = Append(trace, Event("found", FALSE, NoSource,
                                               Len(RemoveDuplicates(acc, {})), ""))
               /\ pc' = "found"
          ELSE /\ alternative_sources' = acc
               /\ qi' = qi + 1
               /\ UNCHANGED <<unique_sources, trace, pc>>
    /\ UNCHANGED <<download_stats, webisode, all_sources, si, source, attempt, phase, ti,
                   working_alternatives, ret, calls, entry>>

\* find_alternatives: the two searches of one query variant returned archive_urls and
\* youtube_urls; after the last variant, or once 8 sources are accumulated, the
\* duplicates are removed and the list returned
SearchReturns(archive_urls, youtube_urls) ==
    /\ pc = "search"
    /\ LET acc == AfterQuery(alternative_sources, archive_urls, youtube_urls)
       IN IF Len(acc) >= AlternativesCap \/ qi = NumQueries
          THEN /\ unique_sources' = RemoveDuplicates(acc, {})
               /\ alternative_sources' = acc
               /\ qi' = qi
               /\ trace' = Append(trace, Event("found", FALSE, NoSource,
                                               Len(RemoveDuplicates(acc, {})), ""))
               /\ pc' = "found"
          ELSE /\ alternative_sources' = acc
               /\ qi' = qi + 1
               /\ UNCHANGED <<unique_sources, trace, pc>>
    /\ UNCHANGED <<download_stats, webisode, all_sources, si, source, attempt, phase, ti,
                   working_alternatives, ret, calls, entry>>

\* find_alternatives: one query variant sent to both searches, which hold urls URLs
\* and return at most archive_hits and youtube_hits of them
Search(urls, archive_hits, youtube_hits) ==
    /\ pc = "search"
    /\ LET met == Highest(0, [i \in 1..Len(alternative_sources) |-> alternative_sources[i].url])
       IN \E archive_urls \in ArchiveResults(met, urls, archive_hits) :
          \E youtube_urls \in YoutubeResults(Highest(met, archive_urls), urls, youtube_hits) :
              SearchReturns(archive_urls, youtube_urls)

\* the n URLs after the hi met so far
FreshUrls(hi, n) == [i \in 1..n |-> hi + i]

\* find_alternatives: one query variant sent to both searches, each of which returns
\* only URLs not met before, up to its own limit of 10 and of 5
SearchFresh ==
    /\ pc = "search"
    /\ LET met == Highest(0, [i \in 1..Len(alternative_sources) |-> alternative_sources[i].url])
       IN \E a \in 0..ArchiveTop : \E y \in 0..YoutubeTop :
              SearchReturns(FreshUrls(met, a), FreshUrls(met + a, y))

\* mutant of AlternativesFound: the "if alternative_sources:" test is missing
AlternativesFound_Unguarded ==
    /\ pc = "found"
    /\ download_stats' = Bump(download_stats, "alternatives_used")
    /\ ti' = 1
    /\ working_alternatives' = <<>>
    /\ alternative_sources' = <<>>
    /\ qi' = 0
    /\ pc' = "probe"
    /\ UNCHANGED <<webisode, all_sources, si, source, attempt, phase,
                   unique_sources, ret, calls, entry, trace>>

\* download_webisode: "if alternative_sources:" taken, alternatives_used += 1
AlternativesFound ==
    /\ pc = "found"
    /\ unique_sources # <<>>
    /\ download_stats' = Bump(download_stats, "alternatives_used")
    /\ ti' = 1
    /\ working_alternatives' = <<>>
    /\ alternative_sources' = <<>>
    /\ qi' = 0
    /\ pc' = "probe"
    /\ UNCHANGED <<webisode, all_sources, si, source, attempt, phase,
                   unique_sources, ret, calls, entry, trace>>

\* download_webisode: find_alternatives returned nothing: failed += 1, return False
NoAlternatives ==
    /\ pc = "found"
    /\ unique_sources = <<>>
    /\ Return("False", Bump(download_stats, "failed"), trace)

\* mutant of Probe: the result of test_source is ignored, every tested source is kept
Probe_KeepsAll ==
    /\ pc = "probe"
    /\ ti <= Len(Take(unique_sources, TestTop))
    /\ \E outcome \in {"info", "nothing", "error"} :
        LET alt_source == unique_sources[ti]
            tested == [alt_source EXCEPT !.working =
                          CASE outcome = "info" -> "True"
                            [] outcome = "error" -> "False"
                            [] OTHER -> @]
        IN /\ unique_sources' = [unique_sources EXCEPT ![ti] = tested]
           /\ working_alternatives' = Append(working_alternatives, tested)
           /\ trace' = Append(trace, Event("probe", FALSE, alt_source, ti,
                                           IF outcome = "info" THEN "True" ELSE "False"))
    /\ ti' = ti + 1
    /\ UNCHANGED <<download_stats, pc, webisode, all_sources, si, source, attempt, phase,
                   qi, alternative_sources, ret, calls, entry>>

\* mutant of Probe: an extraction that raises is tried once more
Probe_Retries ==
    /\ pc = "probe"
    /\ ti <= Len(Take(unique_sources, TestTop))
    /\ \E outcome \in {"info", "nothing", "error"} :
        LET alt_source == unique_sources[ti]
            tested == [alt_source EXCEPT !.working =
                          CASE outcome = "info" -> "True"
                            [] outcome = "error" -> "False"
                            [] OTHER -> @]
            probed == Event("probe", FALSE, alt_source, ti,
                            IF outcome = "info" THEN "True" ELSE "False")
        IN /\ unique_sources' = [unique_sources EXCEPT ![ti] = tested]
           /\ working_alternatives' =
                 IF outcome = "info" THEN Append(working_alternatives, tested)
                 ELSE working_alternatives
           /\ trace' = IF outcome = "error" THEN trace \o <<probed, probed>>
                       ELSE Append(trace, probed)
    /\ ti' = ti + 1
    /\ UNCHANGED <<download_stats, pc, webisode, all_sources, si, source, attempt, phase,
                   qi, alternative_sources, ret, calls, entry>>

\* mutant of Probe: a source that was probed reachable is fetched at once, before the
\* next one is probed
Probe_FetchesAtOnce ==
    /\ pc = "probe"
    /\ ti <= Len(Take(unique_sources, TestTop))
    /\ \E outcome \in {"info", "nothing", "error"} :
        LET alt_source == unique_sources[ti]
            tested == [alt_source EXCEPT !.working =
                          CASE outcome = "info" -> "True"
                            [] outcome = "error" -> "False"
                            [] OTHER -> @]
            probed == Event("probe", FALSE, alt_source, ti,
                            IF outcome = "info" THEN "True" ELSE "False")
        IN /\ unique_sources' = [unique_sources EXCEPT ![ti] = tested]
           /\ working_alternatives' = working_alternatives
           /\ trace' = IF outcome = "info"
                          THEN trace \o <<probed, Event("fetch", FALSE, tested, 0, "fail")>>
                          ELSE Append(trace, probed)
    /\ ti' = ti + 1
    /\ UNCHANGED <<download_stats, pc, webisode, all_sources, si, source, attempt, phase,
                   qi, alternative_sources, ret, calls, entry>>

\* test_source on the next of the first five alternatives: extract_info returns info
\* (working = True, the source is kept), returns nothing (working untouched) or
\* raises (working = False)
Probe ==
    /\ pc = "probe"
    /\ ti <= Len(Take(unique_sources, TestTop))
    /\ \E outcome \in {"info", "nothing", "error"} :
        LET alt_source == unique_sources[ti]
            tested == [alt_source EXCEPT !.working =
                          CASE outcome = "info" -> "True"
                            [] outcome = "error" -> "False"
                            [] OTHER -> @]
        IN /\ unique_sources' = [unique_sources EXCEPT ![ti] = tested]
           /\ working_alternatives' =
                 IF outcome = "info" THEN Append(working_alternatives, tested)
                 ELSE working_alternatives
           /\ trace' = Append(trace, Event("probe", FALSE, alt_source, ti,
                                           IF outcome = "info" THEN "True" ELSE "False"))
    /\ ti' = ti + 1
    /\ UNCHANGED <<download_stats, pc, webisode, all_sources, si, source, attempt, phase,
                   qi, alternative_sources, ret, calls, entry>>

\* the probing loop is over: "for source in working_alternatives" begins
ProbingDone ==
    /\ pc = "probe"
    /\ ti > Len(Take(unique_sources, TestTop))
    /\ si' = 1
    /\ phase' = "alt"
    /\ pc' = "alt"
    /\ UNCHANGED <<download_stats, webisode, all_sources, source, attempt, qi,
                   alternative_sources, unique_sources, ti, working_alternatives,
                   ret, calls, entry, trace>>

\* download_with_source called on the next working alternative
NextAlternative ==
    /\ pc = "alt"
    /\ si <= Len(working_alternatives)
    /\ source' = working_alternatives[si]
    /\ attempt' = 0
    /\ pc' = "fetch"
    /\ UNCHANGED <<download_stats, webisode, all_sources, si, phase, qi,
                   alternative_sources, unique_sources, ti, working_alternatives,
                   ret, calls, entry, trace>>

\* mutant of AlternativesExhausted: failed is not counted
AlternativesExhausted_NotCounted ==
    /\ pc = "alt"
    /\ si > Len(working_alternatives)
    /\ Return("False", download_stats, trace)

\* no working alternative is left: failed += 1, return False
AlternativesExhausted ==
    /\ pc = "alt"
    /\ si > Len(working_alternatives)
    /\ Return("False", Bump(download_stats, "failed"), trace)

\* the steps of one download_webisode call
Steps ==
    \/ NextKnownSource
    \/ KnownExhausted
    \/ FetchSucceeds
    \/ FetchRetries
    \/ FetchGivesUp
    \/ AlternativesFound
    \/ NoAlternatives
    \/ Probe
    \/ ProbingDone
    \/ NextAlternative
    \/ AlternativesExhausted

\* ------------------------------------------------------- the GUI's run
\* mutant of StartDownload: the statistics are reset when a run starts
StartDownload_ResetsStats(max_items) ==
    /\ ~downloading
    /\ \E n \in 1..(max_items - calls) : total_webisodes' = n
    /\ mkdir_calls' = 1
    /\ start_result' = "started"
    /\ downloading' = TRUE
    /\ workers' = workers + 1
    /\ worker' = "check"
    /\ run_i' = 0
    /\ run_entry' = ZeroStats
    /\ cancelled' = NotCancelled
    /\ run_end' = "none"
    /\ download_stats' = ZeroStats
    /\ UNCHANGED <<pc, webisode, all_sources, si, source, attempt, phase, qi,
                   alternative_sources, unique_sources, ti, working_alternatives,
                   ret, calls, entry, trace>>

\* start_download with downloading clear, a selection of n webisodes and a download
\* directory that mkdir can create: downloading = True and the thread started, which
\* logs its header and reaches the head of its loop
StartDownload(max_items) ==
    /\ ~downloading
    /\ \E n \in 1..(max_items - calls) : total_webisodes' = n
    /\ mkdir_calls' = 1
    /\ start_result' = "started"
    /\ downloading' = TRUE
    /\ workers' = workers + 1
    /\ worker' = "check"
    /\ run_i' = 0
    /\ run_entry' = download_stats
    /\ cancelled' = NotCancelled
    /\ run_end' = "none"
    /\ UNCHANGED core

\* mutant of StartRefused: the downloading test is missing, a second thread is started
StartRefused_StartsWorker ==
    /\ downloading
    /\ mkdir_calls' = 1
    /\ start_result' = "started"
    /\ workers' = workers + 1
    /\ UNCHANGED <<core, downloading, worker, total_webisodes, run_i, run_entry,
                   cancelled, run_end>>

\* start_download while downloading is set: a warning is shown, nothing else happens
StartRefused ==
    /\ downloading
    /\ start_result' = "refused"
    /\ UNCHANGED <<core, downloading, worker, total_webisodes, run_i, run_entry,
                   cancelled, workers, mkdir_calls, run_end>>

\* start_download with no webisode selected: a warning is shown, nothing else happens
StartNothingSelected ==
    /\ ~downloading
    /\ mkdir_calls' = 0
    /\ start_result' = "empty"
    /\ run_entry' = download_stats
    /\ UNCHANGED <<core, downloading, worker, total_webisodes, run_i, cancelled,
                   workers, run_end>>

\* mutant of StartMkdirFails: the error is shown and the run started all the same
StartMkdirFails_StartsAnyway ==
    /\ ~downloading
    /\ calls < MaxItems
    /\ mkdir_calls' = 1
    /\ start_result' = "mkdir_failed"
    /\ run_entry' = download_stats
    /\ downloading' = TRUE
    /\ workers' = workers + 1
    /\ worker' = "check"
    /\ total_webisodes' = 1
    /\ run_i' = 0
    /\ run_end' = "none"
    /\ UNCHANGED <<core, cancelled>>

\* start_download with a selection, but mkdir raises: the error is shown and
\* start_download returns
StartMkdirFails ==
    /\ ~downloading
    /\ mkdir_calls' = 1
    /\ start_result' = "mkdir_failed"
    /\ run_entry' = download_stats
    /\ UNCHANGED <<core, downloading, worker, total_webisodes, run_i, cancelled,
                   workers, run_end>>

\* mutant of RunNextItem: the loop does not look at downloading
RunNextItem_IgnoresFlag(catalog, max_calls) ==
    /\ worker = "check"
    /\ run_i < total_webisodes
    /\ Call(catalog, max_calls)
    /\ worker' = "item"
    /\ UNCHANGED <<downloading, total_webisodes, run_i, run_entry, cancelled, workers,
                   start_result, mkdir_calls, run_end>>

\* download_webisodes: the loop takes its next webisode, finds downloading set and
\* calls download_webisode
RunNextItem(catalog, max_calls) ==
    /\ worker = "check"
    /\ run_i < total_webisodes
    /\ downloading
    /\ Call(catalog, max_calls)
    /\ worker' = "item"
    /\ UNCHANGED <<downloading, total_webisodes, run_i, run_entry, cancelled, workers,
                   start_result, mkdir_calls, run_end>>

\* download_webisodes: download_webisode returned; the result is logged, progress and
\* statistics are shown, the thread sleeps 2 s and is back at the head of the loop
RunItemReturns ==
    /\ worker = "item"
    /\ pc = "idle"
    /\ run_i' = run_i + 1
    /\ worker' = "check"
    /\ UNCHANGED <<core, downloading, total_webisodes, run_entry, cancelled, workers,
                   start_result, mkdir_calls, run_end>>

\* download_webisodes: the loop ends, by exhaustion or by "if not self.downloading: break"
RunLeavesLoop ==
    /\ worker = "check"
    /\ (run_i >= total_webisodes \/ ~downloading)
    /\ worker' = "final"
    /\ UNCHANGED <<core, downloading, total_webisodes, run_i, run_entry, cancelled,
                   workers, start_result, mkdir_calls, run_end>>

\* download_webisodes: the final statistics are logged and the finally block clears
\* the flag: downloading = False; the thread has its UI updates left to do
RunFinal ==
    /\ worker = "final"
    /\ downloading' = FALSE
    /\ worker' = "none"
    /\ run_end' = "completed"
    /\ UNCHANGED <<core, total_webisodes, run_i, run_entry, cancelled, workers,
                   start_result, mkdir_calls>>

\* mutant of RunRaises: the exception is caught inside the loop, which goes on with
\* the next webisode
RunRaises_Continues ==
    /\ worker \in {"check", "item", "final"}
    /\ IF pc # "idle" THEN Return("Raised", download_stats, trace) ELSE UNCHANGED core
    /\ worker' = "check"
    /\ run_i' = IF worker = "item" THEN run_i + 1 ELSE run_i
    /\ run_end' = "raised"
    /\ UNCHANGED <<downloading, total_webisodes, run_entry, cancelled, workers,
                   start_result, mkdir_calls>>

\* download_webisodes: an exception leaves the try block: raised by a statement of the
\* loop or of the final statistics (a log or status call), or by download_webisode,
\* whose call is then abandoned where it is; control is at "except Exception"
RunRaises ==
    /\ worker \in {"check", "item", "final"}
    /\ IF pc # "idle" THEN Return("Raised", download_stats, trace) ELSE UNCHANGED core
    /\ worker' = "except"
    /\ run_end' = "raised"
    /\ UNCHANGED <<downloading, total_webisodes, run_i, run_entry, cancelled, workers,
                   start_result, mkdir_calls>>

\* mutant of RunExcept: downloading is not cleared after an error
RunExcept_KeepsFlag ==
    /\ worker = "except"
    /\ worker' = "none"
    /\ run_end' = "error"
    /\ UNCHANGED <<core, downloading, total_webisodes, run_i, run_entry, cancelled,
                   workers, start_result, mkdir_calls>>

\* download_webisodes: "except Exception" logs the error with logger.error, and the
\* finally block clears the flag, whether or not the handler's own log call returns
RunExcept ==
    /\ worker = "except"
    /\ downloading' = FALSE
    /\ worker' = "none"
    /\ run_end' = "error"
    /\ UNCHANGED <<core, total_webisodes, run_i, run_entry, cancelled, workers,
                   start_result, mkdir_calls>>

\* download_webisodes: a thread that has cleared the flag resets the button, the
\* status and the progress bar, and ends
RunThreadEnds ==
    /\ workers > (IF worker = "none" THEN 0 ELSE 1)
    /\ workers' = workers - 1
    /\ UNCHANGED <<core, downloading, worker, total_webisodes, run_i, run_entry,
                   cancelled, start_result, mkdir_calls, run_end>>

\* the cancellation: downloading is cleared from outside the download thread
Cancel ==
    /\ downloading
    /\ worker \in {"check", "item"}
    /\ downloading' = FALSE
    /\ cancelled' = [at |-> worker, i |-> run_i, pc |-> pc]
    /\ UNCHANGED <<core, worker, total_webisodes, run_i, run_entry, workers,
                   start_result, mkdir_calls, run_end>>

\* ------------------------------- search_archive_org, search_alternative_youtube
\* the query of the variant, and the titles the backends hold for their two URLs
VariantQuery == <<"w", "w">>

TitleOf(url) == IF url = 1 THEN <<"T", "w", "d">> ELSE <<"d", "d">>

\* the docs of a response, and the entries of a YouTube search, by their URLs
DocLists == {<<>>, <<1>>, <<2>>, <<2, 1>>}

EntryLists == {<<>>, <<1>>, <<2>>}

\* search_archive_org: the loop over the docs of a response
RECURSIVE AppendRelevant(_, _)
AppendRelevant(found, docs) ==
    IF docs = <<>> THEN found
    ELSE LET url == Head(docs)
             kept == IF /\ is_relevant_result(VariantQuery, TitleOf(url))
                        /\ \A i \in 1..Len(found) : found[i] # url
                     THEN Append(found, url) ELSE found
         IN AppendRelevant(kept, Tail(docs))

\* search_archive_org: after a strategy, the next one is taken unless 20 URLs are found
NextStrategy(found) ==
    IF Len(found) >= ArchiveUrlsCap THEN NumStrategies + 1 ELSE strategy + 1

\* find_alternatives calls search_archive_org with the query of the next variant
ArchiveSearchBegins ==
    /\ pc = "search"
    /\ srch_pc = "none"
    /\ srch_pc' = "archive"
    /\ strategy' = 1
    /\ search_attempt' = 0
    /\ found_urls' = <<>>
    /\ archive_requests' = 0
    /\ archive_ok' = FALSE
    /\ UNCHANGED <<core, youtube_requests, youtube_failed>>

\* search_archive_org: the request is answered with status 200: the relevant docs not
\* yet found are appended, "break" ends the retries of the strategy
ArchiveResponds ==
    /\ srch_pc = "archive"
    /\ strategy <= NumStrategies
    /\ \E docs \in DocLists :
          /\ found_urls' = AppendRelevant(found_urls, docs)
          /\ strategy' = NextStrategy(AppendRelevant(found_urls, docs))
    /\ search_attempt' = 0
    /\ archive_requests' = archive_requests + 1
    /\ archive_ok' = TRUE
    /\ UNCHANGED <<core, srch_pc, youtube_requests, youtube_failed>>

\* search_archive_org: the request is answered with another status or raises a
\* RequestException: backoff and retry, unless this was the third attempt
ArchiveRequestFails ==
    /\ srch_pc = "archive"
    /\ strategy <= NumStrategies
    /\ archive_requests' = archive_requests + 1
    /\ IF search_attempt < MaxRetries - 1
          THEN search_attempt' = search_attempt + 1 /\ strategy' = strategy
          ELSE search_attempt' = 0 /\ strategy' = NextStrategy(found_urls)
    /\ UNCHANGED <<core, srch_pc, found_urls, archive_ok, youtube_requests, youtube_failed>>

\* mutant of ArchiveStrategyRaises: the exception leaves find_alternatives and is
\* caught by download_webisode, which gives the item up
ArchiveStrategyRaises_Aborts ==
    /\ srch_pc = "archive"
    /\ strategy <= NumStrategies
    /\ Return("False", Bump(download_stats, "failed"), trace)
    /\ archive_requests' = archive_requests + 1
    /\ srch_pc' = "none"
    /\ strategy' = 0
    /\ search_attempt' = 0
    /\ found_urls' = <<>>
    /\ UNCHANGED <<archive_ok, youtube_requests, youtube_failed>>

\* search_archive_org: the answer cannot be read (any other exception): the outer
\* except clause goes on to the next strategy
ArchiveStrategyRaises ==
    /\ srch_pc = "archive"
    /\ strategy <= NumStrategies
    /\ archive_requests' = archive_requests + 1
    /\ search_attempt' = 0
    /\ strategy' = strategy + 1
    /\ UNCHANGED <<core, srch_pc, found_urls, archive_ok, youtube_requests, youtube_failed>>

\* search_archive_org: return urls[:10]
ArchiveSearchReturns ==
    /\ srch_pc = "archive"
    /\ strategy > NumStrategies
    /\ found_urls' = Take(found_urls, ArchiveTop)
    /\ srch_pc' = "youtube"
    /\ UNCHANGED <<core, strategy, search_attempt, archive_requests, archive_ok,
                   youtube_requests, youtube_failed>>

\* search_alternative_youtube: one extract_info call; its first five entries are
\* returned, or [] when it raises; find_alternatives appends the sources of both
\* searches and goes on to its cap check
YoutubeSearch ==
    /\ srch_pc = "youtube"
    /\ \/ /\ youtube_failed' = TRUE
          /\ SearchReturns(found_urls, <<>>)
       \/ /\ youtube_failed' = FALSE
          /\ \E entries \in EntryLists : SearchReturns(found_urls, Take(entries, YoutubeTop))
    /\ youtube_requests' = 1
    /\ srch_pc' = "none"
    /\ strategy' = 0
    /\ search_attempt' = 0
    /\ found_urls' = <<>>
    /\ archive_requests' = 0
    /\ archive_ok' = FALSE

\* ---------------------------------------- download_with_source_retry
\* mutant of exponential_backoff: the delay grows linearly with the attempt
exponential_backoff_Linear(attempt_no, base_delay, jitter) ==
    base_delay * Tick * (attempt_no + 1) + jitter

\* exponential_backoff: base_delay * (2 ** attempt) + random.uniform(0, 1), in 1/Tick s;
\* jitter is the value drawn by random.uniform
exponential_backoff(attempt_no, base_delay, jitter) ==
    base_delay * Tick * (2 ^ attempt_no) + jitter

\* the values random.uniform(0, 1) takes, in 1/Tick s
Jitters == 0..(Tick - 1)

\* the error classes the two except clauses tell apart
ErrorClasses == {"DownloadError", "Exception"}

\* the base delay the except clause of an error class passes to exponential_backoff
BaseDelay(error) ==
    IF error = "DownloadError" THEN DownloadErrorBase ELSE UnexpectedErrorBase

\* mutant of socket_timeout: every attempt gets the timeout of the first
socket_timeout_Flat(attempt_no) == BaseTimeout

\* download_with_source_retry: the 'socket_timeout' of an attempt
socket_timeout(attempt_no) == BaseTimeout + (attempt_no * TimeoutStep)

\* history: ydl.download([source.url]) of one attempt, res is "ok" or the error class
FetchEvent(attempt_no, url, res) ==
    [op |-> "fetch", attempt |-> attempt_no, url |-> url,
     timeout |-> socket_timeout(attempt_no), res |-> res,
     base |-> 0, delay |-> 0]

\* history: time.sleep(delay) after a failed attempt
SleepEvent(attempt_no, url, base_delay, delay) ==
    [op |-> "sleep", attempt |-> attempt_no, url |-> url, timeout |-> 0, res |-> "",
     base |-> base_delay, delay |-> delay]

\* download_with_source_retry is called with some source and some max_attempts
RetryCall(max_tries) ==
    /\ retry_pc = "idle"
    /\ \E n \in 0..max_tries : max_attempts' = n
    /\ \E url \in 1..2 : retry_source' = url
    /\ retry_attempt' = 0
    /\ retry_ret' = "None"
    /\ retry_log' = <<>>
    /\ retry_pc' = "loop"

\* an attempt whose ydl.download returns: "return True"
RetryFetchOk ==
    /\ retry_pc = "loop"
    /\ retry_attempt < max_attempts
    /\ retry_log' = Append(retry_log, FetchEvent(retry_attempt, retry_source, "ok"))
    /\ retry_ret' = "True"
    /\ retry_pc' = "idle"
    /\ UNCHANGED <<max_attempts, retry_source, retry_attempt>>

\* mutant of RetryFetchFails: the backoff is taken after the last attempt too
RetryFetchFails_AlwaysSleeps ==
    /\ retry_pc = "loop"
    /\ retry_attempt < max_attempts
    /\ \E error \in ErrorClasses :
          retry_log' = Append(retry_log, FetchEvent(retry_attempt, retry_source, error))
    /\ retry_pc' = "backoff"
    /\ UNCHANGED <<max_attempts, retry_source, retry_attempt, retry_ret>>

\* an attempt whose ydl.download raises, a DownloadError or any other exception: the
\* except clause logs it and, unless this was the last attempt, goes on to back off
RetryFetchFails ==
    /\ retry_pc = "loop"
    /\ retry_attempt < max_attempts
    /\ \E error \in ErrorClasses :
          retry_log' = Append(retry_log, FetchEvent(retry_attempt, retry_source, error))
    /\ IF retry_attempt < max_attempts - 1
          THEN retry_pc' = "backoff" /\ retry_attempt' = retry_attempt
          ELSE retry_pc' = "loop" /\ retry_attempt' = retry_attempt + 1
    /\ UNCHANGED <<max_attempts, retry_source, retry_ret>>

\* the results of a fetch during which the progress callback raised inside the hook
\* yt-dlp called: the exception left ydl.download, or yt-dlp kept it and returned
ProgressResults == {"ProgressRaised", "ProgressKept"}

\* an attempt during which self.progress_callback raises: progress_hook has no handler,
\* so the exception unwinds the transfer inside ydl.download. Whether it leaves
\* ydl.download is yt-dlp's choice: if it does, "except Exception" takes it as the
\* failure of the attempt; if not, ydl.download returns and the call returns True
RetryProgressFails ==
    /\ retry_pc = "loop"
    /\ retry_attempt < max_attempts
    /\ \E res \in ProgressResults :
          /\ retry_log' = Append(retry_log, FetchEvent(retry_attempt, retry_source, res))
          /\ IF res = "ProgressKept"
                THEN /\ retry_ret' = "True"
                     /\ retry_pc' = "idle"
                     /\ retry_attempt' = retry_attempt
                ELSE /\ retry_ret' = retry_ret
                     /\ IF retry_attempt < max_attempts - 1
                           THEN retry_pc' = "backoff" /\ retry_attempt' = retry_attempt
                           ELSE retry_pc' = "loop" /\ retry_attempt' = retry_attempt + 1
    /\ UNCHANGED <<max_attempts, retry_source>>

\* the except clause computes the delay with the base of its error class and sleeps;
\* the loop goes on to the next attempt
RetryBackoff ==
    /\ retry_pc = "backoff"
    /\ \E jitter \in Jitters :
          LET base_delay == BaseDelay(retry_log[Len(retry_log)].res)
              delay == exponential_backoff(retry_attempt, base_delay, jitter)
          IN retry_log' = Append(retry_log,
                                 SleepEvent(retry_attempt, retry_source, base_delay, delay))
    /\ retry_attempt' = retry_attempt + 1
    /\ retry_pc' = "loop"
    /\ UNCHANGED <<max_attempts, retry_source, retry_ret>>

\* mutant of RetryReturnsFalse: the loop runs over range(max_attempts - 1)
RetryReturnsFalse_Early ==
    /\ retry_pc = "loop"
    /\ retry_attempt >= max_attempts - 1
    /\ retry_ret' = "False"
    /\ retry_pc' = "idle"
    /\ UNCHANGED <<max_attempts, retry_source, retry_attempt, retry_log>>

\* the loop over range(max_attempts) is exhausted: "return False"
RetryReturnsFalse ==
    /\ retry_pc = "loop"
    /\ retry_attempt >= max_attempts
    /\ retry_ret' = "False"
    /\ retry_pc' = "idle"
    /\ UNCHANGED <<max_attempts, retry_source, retry_attempt, retry_log>>

\* ------------------------------------------------------- specifications
\* a run over up to MaxItems items of at most one known source each, the search
\* backends holding a single URL
Next ==
    /\ \/ Call(Catalog(1), MaxItems)
       \/ Search(1, 1, 1)
       \/ Steps
    /\ UNCHANGED <<gui, retry, relevance, search, args>>

Spec == Init /\ [][Next]_vars

\* one item with up to MaxKnown known sources, the search backends holding two URLs
\* and returning at most one per search
NextItem ==
    /\ \/ Call(Catalog(MaxKnown), 1)
       \/ Search(2, 1, 1)
       \/ Steps
    /\ UNCHANGED <<gui, retry, relevance, search, args>>

SpecItem == Init /\ [][NextItem]_vars

\* one item with at most one known source, the archive search returning up to
\* WideHits of WideUrls URLs for a query
NextDiscovery ==
    /\ \/ Call(Catalog(1), 1)
       \/ Search(WideUrls, WideHits, 0)
       \/ Steps
    /\ UNCHANGED <<gui, retry, relevance, search, args>>

SpecDiscovery == Init /\ [][NextDiscovery]_vars

\* a download_webisode call in progress goes on: the fetch, search or probe call it
\* waits for returns or raises. For the searches this is stated on the answer without
\* URLs, which both can give whenever a query variant is sent: the condition rules out
\* waiting for ever, and any other answer ends the wait as well
CallGoesOn ==
    /\ pc # "idle"
    /\ SearchReturns(<<>>, <<>>) \/ Steps
    /\ UNCHANGED <<gui, retry, relevance, search, args>>

\* one call of download_webisode with any max_retries, on an item of at most one known
\* source, the search backends holding a single URL
NextArgument ==
    /\ \/ CallWithRetries(Catalog(1), 1)
       \/ ((Search(1, 1, 1) \/ Steps) /\ UNCHANGED args)
    /\ UNCHANGED <<gui, retry, relevance, search>>

SpecArgument == Init /\ [][NextArgument]_vars

SpecTerminates == Init /\ [][NextDiscovery]_vars /\ WF_vars(CallGoesOn)

\* the GUI's runs: up to MaxItems items in all, of at most one known source each,
\* the search backends holding a single URL
NextRun ==
    /\ \/ (StartDownload(MaxItems) /\ worker = "none" /\ workers = 0)
       \/ RunNextItem(Catalog(1), MaxItems)
       \/ RunItemReturns
       \/ RunLeavesLoop
       \/ RunFinal
       \/ RunThreadEnds
       \/ Cancel
       \/ (Search(1, 1, 1) /\ UNCHANGED gui)
       \/ (Steps /\ UNCHANGED gui)
    /\ UNCHANGED <<retry, relevance, search, args>>

SpecRun == Init /\ [][NextRun]_vars

\* the GUI's runs without a cancellation, start_download being invoked at any time:
\* up to MaxItems items in all, of at most one known source each, the search backends
\* holding a single URL
NextGui ==
    /\ \/ StartDownload(MaxItems)
       \/ StartRefused
       \/ StartNothingSelected
       \/ StartMkdirFails
       \/ RunNextItem(Catalog(1), MaxItems)
       \/ RunItemReturns
       \/ RunLeavesLoop
       \/ RunFinal
       \/ RunThreadEnds
       \/ (Search(1, 1, 1) /\ UNCHANGED gui)
       \/ (Steps /\ UNCHANGED gui)
    /\ UNCHANGED <<retry, relevance, search, args>>

SpecGui == Init /\ [][NextGui]_vars

\* the GUI's runs, any of which an exception or a cancellation may cut short: up to
\* MaxItems items in all, of at most one known source each, the search backends
\* holding a single URL
NextRunRaises ==
    /\ \/ (StartDownload(MaxItems) /\ worker = "none" /\ workers = 0)
       \/ RunNextItem(Catalog(1), MaxItems)
       \/ RunItemReturns
       \/ RunLeavesLoop
       \/ RunFinal
       \/ RunRaises
       \/ RunExcept
       \/ RunThreadEnds
       \/ Cancel
       \/ (Search(1, 1, 1) /\ UNCHANGED gui)
       \/ (Steps /\ UNCHANGED gui)
    /\ UNCHANGED <<retry, relevance, search, args>>

SpecRunRaises == Init /\ [][NextRunRaises]_vars

\* the same runs over up to two items in all, which is what a run of two items cut
\* short and a run after it take
NextRunEnds ==
    /\ \/ (StartDownload(2) /\ worker = "none" /\ workers = 0)
       \/ RunNextItem(Catalog(1), 2)
       \/ RunItemReturns
       \/ RunLeavesLoop
       \/ RunFinal
       \/ RunRaises
       \/ RunExcept
       \/ RunThreadEnds
       \/ Cancel
       \/ (Search(1, 1, 1) /\ UNCHANGED gui)
       \/ (Steps /\ UNCHANGED gui)
    /\ UNCHANGED <<retry, relevance, search, args>>

\* the download thread goes on: it is scheduled, and the call it waits for returns or
\* raises (for the searches stated on the answer without URLs, as in CallGoesOn)
ThreadGoesOn ==
    /\ worker # "none"
    /\ \/ RunNextItem(Catalog(1), 2)
       \/ RunItemReturns
       \/ RunLeavesLoop
       \/ RunFinal
       \/ RunExcept
       \/ ((SearchReturns(<<>>, <<>>) \/ Steps) /\ UNCHANGED gui)
    /\ UNCHANGED <<retry, relevance, search, args>>

SpecRunEnds == Init /\ [][NextRunEnds]_vars /\ WF_vars(ThreadGoesOn)

\* calls of download_with_source_retry with max_attempts up to MaxTries
NextRetry ==
    /\ \/ RetryCall(MaxTries)
       \/ RetryFetchOk
       \/ RetryFetchFails
       \/ RetryBackoff
       \/ RetryReturnsFalse
    /\ UNCHANGED <<core, gui, relevance, search, args>>

SpecRetry == Init /\ [][NextRetry]_vars

\* calls of download_with_source_retry whose progress callback may raise
NextProgress ==
    /\ \/ RetryCall(MaxTries)
       \/ RetryFetchOk
       \/ RetryFetchFails
       \/ RetryProgressFails
       \/ RetryBackoff
       \/ RetryReturnsFalse
    /\ UNCHANGED <<core, gui, relevance, search, args>>

SpecProgress == Init /\ [][NextProgress]_vars

\* the discovery of one item without known sources, every search returning any
\* number of new URLs up to its limit; the call is followed up to the return of
\* find_alternatives
NextFind ==
    /\ \/ Call(Catalog(0), 1)
       \/ KnownExhausted
       \/ SearchFresh
       \/ NoAlternatives
    /\ UNCHANGED <<gui, retry, relevance, search, args>>

SpecFind == Init /\ [][NextFind]_vars

\* the discovery of one item without known sources, request by request; the call is
\* followed up to the return of find_alternatives
NextSearch ==
    /\ \/ (Call(Catalog(0), 1) /\ UNCHANGED search)
       \/ (KnownExhausted /\ UNCHANGED search)
       \/ ArchiveSearchBegins
       \/ ArchiveResponds
       \/ ArchiveRequestFails
       \/ ArchiveStrategyRaises
       \/ ArchiveSearchReturns
       \/ YoutubeSearch
       \/ (NoAlternatives /\ UNCHANGED search)
    /\ UNCHANGED <<gui, retry, relevance, args>>

SpecSearch == Init /\ [][NextSearch]_vars

\* calls of _is_relevant_result
NextRelevance ==
    /\ Relevance
    /\ UNCHANGED <<core, gui, retry, search, args>>

SpecRelevance == Init /\ [][NextRelevance]_vars

TypeOK ==
    /\ pc \in {"idle", "known", "fetch", "search", "found", "probe", "alt"}
    /\ ret \in {"None", "True", "False", "Raised"}
    /\ attempt \in 0..(MaxAttempts - 1)
    /\ downloading \in BOOLEAN
    /\ worker \in {"none", "check", "item", "final", "except"}
    /\ run_end \in {"none", "completed", "raised", "error"}
    /\ total_webisodes \in 0..MaxItems
    /\ run_i \in 0..total_webisodes
    /\ cancelled.at \in {"none", "check", "item"}
    /\ workers \in 0..MaxItems
    /\ start_result \in {"none", "started", "refused", "empty", "mkdir_failed"}
    /\ mkdir_calls \in 0..1
    /\ retry_pc \in {"idle", "loop", "backoff"}
    /\ max_attempts \in 0..MaxTries
    /\ retry_attempt \in 0..max_attempts
    /\ retry_ret \in {"None", "True", "False"}
    /\ srch_pc \in {"none", "archive", "youtube"}
    /\ strategy \in 0..(NumStrategies + 1)
    /\ search_attempt \in 0..(MaxRetries - 1)
    /\ archive_requests \in 0..(NumStrategies * MaxRetries)
    /\ max_retries \in 0..MaxTries

\* ------------------------------------------------------------ properties
Events == 1..Len(trace)

\* a download_webisode call has returned and none is in progress
Returned == pc = "idle" /\ calls > 0

KnownFetch(i) == trace[i].op = "fetch" /\ trace[i].known

DiscoveredFetch(i) == trace[i].op = "fetch" /\ ~trace[i].known

ProbedReachable(i) == trace[i].op = "probe" /\ trace[i].res = "True"

\* the fetch attempts a download_with_source_retry call has made so far
RetryFetches == {e \in 1..Len(retry_log) : retry_log[e].op = "fetch"}

\* those of them that raised
RetryFailures == {e \in RetryFetches : retry_log[e].res \in ErrorClasses}

\* the sleeps a download_with_source_retry call has made so far
RetrySleeps == {e \in 1..Len(retry_log) : retry_log[e].op = "sleep"}

\* the phase of download_webisode an event of the history belongs to: 1 the known
\* sources, 2 find_alternatives, 3 the test_source loop, 4 the working alternatives
EventPhase(e) ==
    CASE e.op \in {"discover", "found"} -> 2
      [] e.op = "probe" -> 3
      [] OTHER -> IF e.known THEN 1 ELSE 4

\* the phase the call is in: 0 not entered, 5 returned
CallPhase ==
    CASE pc = "idle" -> (IF ret = "None" THEN 0 ELSE 5)
      [] pc = "known" -> 1
      [] pc = "fetch" -> (IF phase = "known" THEN 1 ELSE 4)
      [] pc \in {"search", "found"} -> 2
      [] pc = "probe" -> 3
      [] OTHER -> 4

\* a download_with_source_retry call has returned and none is in progress
RetryReturned == retry_pc = "idle" /\ retry_ret # "None"

\* C1: whenever no download_webisode call is in progress, attempted equals
\* successful + failed and alternatives_used is at most attempted
C1_StatsBalanced ==
    pc = "idle" =>
        /\ download_stats.attempted = download_stats.successful + download_stats.failed
        /\ download_stats.alternatives_used <= download_stats.attempted

C1_Witness ==
    /\ pc = "idle"
    /\ calls >= 2
    /\ download_stats.successful >= 1
    /\ download_stats.failed >= 1
    /\ download_stats.alternatives_used >= 1

\* C2: a call counts attempted once, at entry and before any source is tried; when it
\* returns exactly one of successful / failed is one higher than at entry, successful
\* exactly when it returns True and failed exactly when it returns False
C2_CountedOncePerCall ==
    /\ calls > 0 => download_stats.attempted = entry.attempted + 1
    /\ pc # "idle" =>
        /\ download_stats.successful = entry.successful
        /\ download_stats.failed = entry.failed
    /\ Returned =>
        \/ /\ ret = "True"
           /\ download_stats.successful = entry.successful + 1
           /\ download_stats.failed = entry.failed
        \/ /\ ret = "False"
           /\ download_stats.successful = entry.successful
           /\ download_stats.failed = entry.failed + 1

C2_Witness ==
    /\ Returned
    /\ calls >= 2
    /\ ret = "False"
    /\ entry.successful >= 1
    /\ entry.failed >= 1

\* C3: once a fetch of the item succeeds, no further fetch, no discovery and no probe
\* follows in that item, and the call has returned True; so a success of the first
\* known source leaves the other known sources untried and find_alternatives uncalled
C3_ShortCircuit ==
    \A i \in Events :
        (trace[i].op = "fetch" /\ trace[i].res = "ok") =>
            /\ \A j \in Events :
                  j > i => trace[j].op \notin {"fetch", "discover", "found", "probe"}
            /\ pc = "idle"
            /\ ret = "True"

C3_Witness ==
    /\ Returned
    /\ Len(webisode.sources) >= 2
    /\ Len(trace) = 1
    /\ trace[1].op = "fetch"
    /\ trace[1].res = "ok"
    /\ \A k \in 1..Len(webisode.sources) : trace[1].priority <= webisode.sources[k].priority

\* C4: the known sources of an item are fetched in non-decreasing priority order,
\* whatever the order of the item's sources list
C4_KnownInPriorityOrder ==
    \A i, j \in Events :
        (i < j /\ KnownFetch(i) /\ KnownFetch(j)) => trace[i].priority <= trace[j].priority

C4_Witness ==
    /\ \E a, b \in 1..Len(webisode.sources) :
          /\ a < b
          /\ webisode.sources[a].priority > webisode.sources[b].priority
          /\ \E i, j \in Events :
                /\ KnownFetch(i) /\ trace[i].url = webisode.sources[b].url
                /\ KnownFetch(j) /\ trace[j].url = webisode.sources[a].url
                /\ i < j

\* C5: find_alternatives is called at most once per item, only after every known
\* source has failed each of its fetch attempts, and no known source is fetched after
C5_DiscoveryAfterKnown ==
    /\ Cardinality({d \in Events : trace[d].op = "discover"}) <= 1
    /\ \A d \in Events :
          trace[d].op = "discover" =>
            /\ \A k \in 1..Len(webisode.sources) :
                  \A a \in 0..(MaxAttempts - 1) :
                    \E i \in 1..(d - 1) :
                        /\ KnownFetch(i)
                        /\ trace[i].url = webisode.sources[k].url
                        /\ trace[i].n = a
                        /\ trace[i].res = "fail"
            /\ \A i \in 1..(d - 1) : trace[i].op = "fetch" => trace[i].res = "fail"
            /\ \A j \in Events : j > d => ~KnownFetch(j)

C5_Witness ==
    /\ Len(webisode.sources) >= 2
    /\ \E d, f \in Events :
          /\ trace[d].op = "discover"
          /\ d < f
          /\ DiscoveredFetch(f)

\* C6: the list find_alternatives returns is in non-decreasing priority order, and the
\* discovered sources are probed and fetched in non-decreasing priority order
C6_DiscoveredRanked ==
    /\ \A i, j \in 1..Len(unique_sources) :
          i < j => unique_sources[i].priority <= unique_sources[j].priority
    /\ \A i, j \in Events :
          (i < j /\ trace[i].op = "probe" /\ trace[j].op = "probe") =>
              trace[i].priority <= trace[j].priority
    /\ \A i, j \in Events :
          (i < j /\ DiscoveredFetch(i) /\ DiscoveredFetch(j)) =>
              trace[i].priority <= trace[j].priority

\* C7: alternatives_used goes up by at most one per item, and after the item it is up
\* exactly when some discovered source was probed reachable
C7_UsedIffProbedReachable ==
    /\ download_stats.alternatives_used \in
          {entry.alternatives_used, entry.alternatives_used + 1}
    /\ Returned =>
          ((download_stats.alternatives_used = entry.alternatives_used + 1)
              <=> (\E i \in Events : ProbedReachable(i)))

\* C8: when every known source failed, the discovery returned sources, one of them was
\* probed reachable and the fetch of a reachable one succeeded, the call returns True
\* with successful one up, failed unchanged and alternatives_used one up
C8_SucceedsByAlternative ==
    (/\ Returned
     /\ \E d \in Events : trace[d].op = "found" /\ trace[d].n > 0
     /\ \E p, f \in Events :
          /\ ProbedReachable(p)
          /\ DiscoveredFetch(f)
          /\ trace[f].url = trace[p].url
          /\ trace[f].res = "ok")
    => /\ ret = "True"
       /\ download_stats.successful = entry.successful + 1
       /\ download_stats.failed = entry.failed
       /\ download_stats.alternatives_used = entry.alternatives_used + 1

C8_Witness ==
    /\ Returned
    /\ Len(webisode.sources) = 3
    /\ \E d \in Events : trace[d].op = "found" /\ trace[d].n = 2
    /\ Cardinality({p \in Events : trace[p].op = "probe"}) = 2
    /\ Cardinality({p \in Events : ProbedReachable(p)}) = 1
    /\ \E f \in Events : DiscoveredFetch(f) /\ trace[f].res = "ok"
    /\ ret = "True"

\* C9: when find_alternatives returns no source, no probe and no fetch follows, and
\* the call returns False with failed one up and successful and alternatives_used
\* unchanged
C9_EmptyDiscoveryExhausts ==
    \A d \in Events :
        (trace[d].op = "found" /\ trace[d].n = 0) =>
            /\ d = Len(trace)
            /\ pc \in {"found", "idle"}
            /\ download_stats.successful = entry.successful
            /\ download_stats.alternatives_used = entry.alternatives_used
            /\ pc = "found" => download_stats.failed = entry.failed
            /\ pc = "idle" =>
                  /\ ret = "False"
                  /\ download_stats.failed = entry.failed + 1

C9_Witness ==
    /\ Returned
    /\ webisode.sources = <<>>
    /\ Len(trace) = 2
    /\ trace[2].op = "found"
    /\ trace[2].n = 0
    /\ ret = "False"

\* C10: at most the first five discovered sources are probed, each once; a discovered
\* source is fetched only after it was probed reachable; and when none was probed
\* reachable the call returns False without a fetch of a discovered source
C10_ProbedBeforeFetched ==
    /\ Cardinality({p \in Events : trace[p].op = "probe"}) <= TestTop
    /\ \A p \in Events : trace[p].op = "probe" => trace[p].n \in 1..TestTop
    /\ \A p, q \in Events :
          (p # q /\ trace[p].op = "probe" /\ trace[q].op = "probe") =>
              (trace[p].url # trace[q].url /\ trace[p].n # trace[q].n)
    /\ \A f \in Events :
          DiscoveredFetch(f) =>
              \E p \in 1..(f - 1) : ProbedReachable(p) /\ trace[p].url = trace[f].url
    /\ (Returned /\ (\E d \in Events : trace[d].op = "found" /\ trace[d].n > 0)
           /\ ~(\E p \in Events : ProbedReachable(p)))
          => (ret = "False" /\ ~(\E f \in Events : DiscoveredFetch(f)))

C10_Witness ==
    /\ Returned
    /\ \E d \in Events : trace[d].op = "found" /\ trace[d].n > TestTop
    /\ Cardinality({p \in Events : trace[p].op = "probe"}) = TestTop
    /\ \E p \in Events : trace[p].op = "probe" /\ trace[p].res = "False"
    /\ \E f \in Events : DiscoveredFetch(f)

\* C11: when downloading is cleared between two items, after i items of the run were
\* completed, the thread starts no further item: it leaves the loop and ends with
\* attempted raised by exactly i over the run
C11_CancelBetweenItems ==
    cancelled.at = "check" =>
        /\ worker \in {"check", "final", "none"}
        /\ pc = "idle"
        /\ run_i = cancelled.i
        /\ download_stats.attempted = run_entry.attempted + cancelled.i

C11_Witness ==
    /\ cancelled.at = "check"
    /\ cancelled.i = 1
    /\ total_webisodes = MaxItems
    /\ worker = "none"
    /\ ~downloading
    /\ download_stats.attempted = run_entry.attempted + 1

\* C12: when downloading is cleared while an item is being processed, that item runs
\* to its terminal outcome, a successful fetch or the exhaustion of known and
\* discovered sources, with its Stats updates applied, and only the items after it
\* are skipped
C12_CancelDuringItem ==
    cancelled.at = "item" =>
        /\ worker = "item" => run_i = cancelled.i
        /\ (worker = "item" /\ pc # "idle") => ret = "None"
        /\ (worker # "item" \/ pc = "idle") =>
              /\ ret \in {"True", "False"}
              /\ ret = "True" =>
                    (trace # <<>> /\ trace[Len(trace)].op = "fetch"
                        /\ trace[Len(trace)].res = "ok")
              /\ ret = "False" =>
                    /\ \E d \in Events : trace[d].op = "found"
                    /\ \A f \in Events : trace[f].op = "fetch" => trace[f].res = "fail"
              /\ download_stats.attempted = run_entry.attempted + cancelled.i + 1
              /\ download_stats.successful + download_stats.failed
                    = run_entry.successful + run_entry.failed + cancelled.i + 1
              /\ download_stats.successful
                    = entry.successful + (IF ret = "True" THEN 1 ELSE 0)
        /\ worker # "item" => run_i = cancelled.i + 1

C12_Witness ==
    /\ cancelled.at = "item"
    /\ cancelled.pc = "fetch"
    /\ cancelled.i = 0
    /\ total_webisodes > 1
    /\ worker = "none"
    /\ ret = "True"
    /\ download_stats.attempted = run_entry.attempted + 1

\* C13: an error of a fetch or of a probe never ends download_webisode: every failed
\* fetch is followed by the retry's backoff or by the caller's pause, after which the
\* call goes on to its next source or phase, a failed probe is followed by the next
\* probe or by the fetch loop, and the call ends only by returning True with
\* successful counted or False with failed counted
C13_ErrorsContained ==
    /\ pc # "idle" => ret = "None"
    /\ Returned =>
          \/ (ret = "True" /\ download_stats.successful = entry.successful + 1
                 /\ download_stats.failed = entry.failed)
          \/ (ret = "False" /\ download_stats.failed = entry.failed + 1
                 /\ download_stats.successful = entry.successful)
    /\ \A f \in Events :
          (trace[f].op = "fetch" /\ trace[f].res = "fail") =>
              (f < Len(trace) /\ trace[f + 1].op \in {"backoff", "pace"})
    /\ \A p \in Events :
          trace[p].op = "pace" =>
              IF p < Len(trace) THEN trace[p + 1].op \in {"fetch", "discover"}
              ELSE pc \in {"known", "alt", "fetch"} \/ (Returned /\ ret = "False")
    /\ \A p \in Events :
          (trace[p].op = "probe" /\ trace[p].res = "False") =>
              IF p < Len(trace) THEN trace[p + 1].op \in {"probe", "fetch"}
              ELSE pc \in {"probe", "alt", "fetch"} \/ (Returned /\ ret = "False")

C13_Witness ==
    /\ Returned
    /\ ret = "False"
    /\ download_stats.failed = entry.failed + 1
    /\ \E f \in Events : KnownFetch(f) /\ trace[f].res = "fail"
    /\ \E p \in Events : trace[p].op = "probe" /\ trace[p].res = "False"
    /\ \E f \in Events : DiscoveredFetch(f) /\ trace[f].res = "fail"

\* C14: a download_with_source_retry call makes at most max_attempts fetches, numbered
\* 0, 1, .. in order and all of its source's URL; a fetch that succeeds is the last and
\* the call returns True at once; the call returns False only after exactly
\* max_attempts fetches that all failed, whichever the classes of their errors
C14_AttemptBudget ==
    /\ Cardinality(RetryFetches) <= max_attempts
    /\ \A e \in RetryFetches :
          /\ retry_log[e].attempt = Cardinality({d \in RetryFetches : d < e})
          /\ retry_log[e].attempt <= max_attempts - 1
          /\ retry_log[e].url = retry_source
          /\ retry_log[e].res = "ok" =>
                (e = Len(retry_log) /\ retry_ret = "True" /\ retry_pc = "idle")
    /\ retry_ret = "True" =>
          (retry_log # <<>> /\ retry_log[Len(retry_log)].op = "fetch"
              /\ retry_log[Len(retry_log)].res = "ok")
    /\ retry_ret = "False" =>
          (Cardinality(RetryFailures) = max_attempts /\ RetryFetches = RetryFailures)
    /\ (retry_pc # "idle" /\ Cardinality(RetryFailures) = max_attempts) =>
          (retry_pc = "loop" /\ retry_attempt = max_attempts)

C14_Witness ==
    /\ RetryReturned
    /\ retry_ret = "False"
    /\ max_attempts = MaxAttempts
    /\ \E e \in RetryFailures : retry_log[e].res = "DownloadError"
    /\ \E e \in RetryFailures : retry_log[e].res = "Exception"

\* C15: in a download_with_source_retry call every failed attempt but the last is
\* followed by one sleep of exponential_backoff(attempt, base), base being that of the
\* error's class; no sleep follows the last attempt or a success; a call that returns
\* False after max_attempts >= 1 attempts has slept exactly max_attempts - 1 times
C15_BackoffBetweenAttempts ==
    /\ \A s \in RetrySleeps :
          /\ s > 1
          /\ retry_log[s - 1].op = "fetch"
          /\ retry_log[s - 1].res \in ErrorClasses
          /\ retry_log[s].attempt = retry_log[s - 1].attempt
          /\ retry_log[s].attempt < max_attempts - 1
          /\ retry_log[s].base = BaseDelay(retry_log[s - 1].res)
          /\ \E jitter \in Jitters :
                retry_log[s].delay =
                    retry_log[s].base * Tick * (2 ^ retry_log[s].attempt) + jitter
    /\ \A e \in RetryFailures :
          IF retry_log[e].attempt < max_attempts - 1
          THEN IF e = Len(retry_log) THEN retry_pc = "backoff"
               ELSE retry_log[e + 1].op = "sleep"
          ELSE e = Len(retry_log) /\ retry_pc # "backoff"
    /\ \A e \in RetryFetches : retry_log[e].res = "ok" => e = Len(retry_log)
    /\ (retry_ret = "False" /\ max_attempts >= 1) =>
          Cardinality(RetrySleeps) = max_attempts - 1
    /\ retry_ret = "True" =>
          Cardinality(RetrySleeps) = Cardinality(RetryFailures)

C15_Witness ==
    /\ RetryReturned
    /\ retry_ret = "False"
    /\ max_attempts = MaxAttempts
    /\ Cardinality(RetrySleeps) = MaxAttempts - 1
    /\ retry_log[Len(retry_log)].op = "fetch"

\* C16: exponential_backoff(n, base) is at least base * 2^n and less than one second
\* more, for every attempt and both bases, it does not decrease from one attempt to
\* the next when the jitter is 0, and every delay slept by download_with_source_retry
\* is within these limits for its attempt
C16_BackoffDelay ==
    /\ \A n \in 0..MaxTries : \A base_delay \in {UnexpectedErrorBase, DownloadErrorBase} :
          /\ \A jitter \in Jitters :
                /\ exponential_backoff(n, base_delay, jitter) >= base_delay * Tick * (2 ^ n)
                /\ exponential_backoff(n, base_delay, jitter)
                      < base_delay * Tick * (2 ^ n) + Tick
          /\ exponential_backoff(n + 1, base_delay, 0) >= exponential_backoff(n, base_delay, 0)
    /\ \A s \in RetrySleeps :
          /\ retry_log[s].delay >= retry_log[s].base * Tick * (2 ^ retry_log[s].attempt)
          /\ retry_log[s].delay < retry_log[s].base * Tick * (2 ^ retry_log[s].attempt) + Tick

C16_Witness ==
    /\ \E s \in RetrySleeps :
          /\ retry_log[s].attempt = MaxAttempts - 1
          /\ retry_log[s].base = DownloadErrorBase
          /\ retry_log[s].delay > DownloadErrorBase * Tick * (2 ^ (MaxAttempts - 1))
    /\ \E s \in RetrySleeps :
          /\ retry_log[s].attempt = 0
          /\ retry_log[s].base = UnexpectedErrorBase
          /\ retry_log[s].delay = UnexpectedErrorBase * Tick

\* C17: after every test_source call the probed source's working equals the result of
\* the call, True when reachable and False when unreachable, and is never left None
C17_WorkingSetByProbe ==
    pc # "idle" =>
        \A p \in Events :
            trace[p].op = "probe" =>
                /\ unique_sources[trace[p].n].working # "None"
                /\ unique_sources[trace[p].n].working = trace[p].res

\* C18: every test_source call makes one extraction, a source whose extraction raised
\* was probed once with the result False and is not among the working alternatives,
\* and the error does not end download_webisode
C18_ProbeOnceNeverRaises ==
    pc # "idle" =>
        /\ Cardinality({p \in Events : trace[p].op = "probe"}) = Max(ti - 1, 0)
        /\ \A n \in 1..Len(unique_sources) :
              unique_sources[n].working = "False" =>
                  /\ Cardinality({p \in Events : trace[p].op = "probe" /\ trace[p].n = n}) = 1
                  /\ \A p \in Events :
                        (trace[p].op = "probe" /\ trace[p].n = n) => trace[p].res = "False"
                  /\ \A a \in 1..Len(working_alternatives) :
                        working_alternatives[a].url # unique_sources[n].url
                  /\ ret = "None"

C18_Witness ==
    /\ pc = "alt"
    /\ \E n \in 1..Len(unique_sources) : unique_sources[n].working = "False"
    /\ \E n \in 1..Len(unique_sources) : unique_sources[n].working = "True"
    /\ Len(working_alternatives) = 1
    /\ Cardinality({p \in Events : trace[p].op = "probe"}) = 2

\* C19: the list find_alternatives returns holds no URL twice, and it is the list of
\* the first occurrences of the URLs in the accumulated results, in their order there,
\* whichever query variants and capabilities produced the repeats
C19_UniqueFirstSeen ==
    pc = "found" =>
        LET first_seen == {i \in 1..Len(alternative_sources) :
                              \A j \in 1..(i - 1) :
                                  alternative_sources[j].url # alternative_sources[i].url}
        IN /\ \A k, l \in 1..Len(unique_sources) :
                 k # l => unique_sources[k].url # unique_sources[l].url
           /\ Len(unique_sources) = Cardinality(first_seen)
           /\ \A i \in first_seen :
                 unique_sources[1 + Cardinality({j \in first_seen : j < i})]
                     = alternative_sources[i]

C19_Witness ==
    /\ pc = "found"
    /\ Len(unique_sources) = 2
    /\ Len(alternative_sources) > 3
    /\ unique_sources[1].source_type = "youtube"
    /\ \E i, j \in 1..Len(alternative_sources) :
          /\ i < j
          /\ alternative_sources[i].url = alternative_sources[j].url
          /\ alternative_sources[i].source_type # alternative_sources[j].source_type
    /\ \E i, j \in 1..Len(alternative_sources) :
          /\ i < j
          /\ alternative_sources[i].url = alternative_sources[j].url
          /\ alternative_sources[i].source_type = "archive"
          /\ alternative_sources[j].source_type = "archive"

\* C20: the list find_alternatives returns holds at most 10 sources
C20_AtMostTen ==
    pc = "found" => Len(unique_sources) <= 10

\* C21: the query variants are sent in list order, first to last, a variant is sent
\* only while fewer than 8 results are accumulated, and find_alternatives returns
\* before its last variant only when 8 or more are accumulated
C21_VariantsInOrderUntilCap ==
    /\ [](pc = "search" =>
            /\ qi \in 1..NumQueries
            /\ Len(alternative_sources) < AlternativesCap)
    /\ [](pc = "found" =>
            /\ qi \in 1..NumQueries
            /\ qi < NumQueries => Len(alternative_sources) >= AlternativesCap
            /\ Len(alternative_sources) < AlternativesCap => qi = NumQueries)
    /\ [][/\ (pc # "search" /\ pc' = "search") => qi' = 1
          /\ (pc = "search" /\ pc' = "search") => qi' = qi + 1
          /\ (pc = "search" /\ pc' = "found") => qi' = qi]_vars

C21_Witness ==
    /\ pc = "found"
    /\ qi = 2
    /\ Len(alternative_sources) = AlternativesCap

\* C23: _is_relevant_result(query, title) is True exactly when title is not empty and
\* the lowercased title contains the lowercased query or one of the keywords of the
\* fixed list; "Unrelated Show Episode 3" is rejected and "The Walking Dead: Torn
\* Apart Part 1" accepted for the query "Torn Apart"
C23_RelevanceFilter ==
    rel_result # "None" =>
        /\ rel_result = "True" <=>
              /\ Len(rel_title) > 0
              /\ \/ \E k \in 0..Len(rel_title) :
                       /\ k + Len(rel_query) <= Len(rel_title)
                       /\ \A i \in 1..Len(rel_query) :
                             lower(<<rel_title[k + i]>>) = lower(<<rel_query[i]>>)
                 \/ \E w \in 1..Len(twd_keywords) : \E k \in 0..Len(rel_title) :
                       /\ k + Len(twd_keywords[w]) <= Len(rel_title)
                       /\ \A i \in 1..Len(twd_keywords[w]) :
                             lower(<<rel_title[k + i]>>) = <<twd_keywords[w][i]>>
        /\ (rel_query = TornApart /\ rel_title = UnrelatedShow) => rel_result = "False"
        /\ (rel_query = TornApart /\ rel_title = TornApartPartOne) => rel_result = "True"

C23_Witness ==
    /\ rel_query = <<"w", "w">>
    /\ rel_title = <<"T", "w", "d">>
    /\ rel_result = "True"

\* C22: every source find_alternatives returns, from the archive search or from the
\* YouTube search, has a title that passes the relevance filter for the query
C22_ReturnedSourcesRelevant ==
    pc = "found" =>
        \A i \in 1..Len(unique_sources) :
            is_relevant_result(VariantQuery, TitleOf(unique_sources[i].url))

\* C24: for one query variant neither search makes more than 3 requests, and a search
\* gives up on a failure only after its 3 tries
C24_BoundedRetryPerCapability ==
    /\ archive_requests <= MaxRetries
    /\ youtube_failed => youtube_requests = MaxRetries

\* C25: a failure of a search never ends find_alternatives: an archive search without
\* any answer contributes no URL and is followed by the YouTube search of the same
\* variant, a YouTube search that raises contributes no URL, and after it the next
\* variant is processed unless the cap or the last variant is reached
C25_SearchFailuresContained ==
    /\ []((srch_pc = "youtube" /\ ~archive_ok) => found_urls = <<>>)
    /\ [](pc \in {"search", "found"} => ret = "None")
    /\ [][(srch_pc = "archive" /\ srch_pc' # "archive") =>
              (srch_pc' = "youtube" /\ pc' = "search" /\ UNCHANGED core)]_vars
    /\ [][(srch_pc = "youtube" /\ srch_pc' # "youtube") =>
              /\ youtube_failed' =>
                    alternative_sources' =
                        alternative_sources \o SourcesOf(found_urls, "archive", 1)
              /\ IF Len(alternative_sources') >= AlternativesCap \/ qi = NumQueries
                    THEN pc' = "found"
                    ELSE pc' = "search" /\ qi' = qi + 1]_vars

C25_Witness ==
    /\ srch_pc = "youtube"
    /\ qi = NumQueries
    /\ ~archive_ok
    /\ archive_requests = NumStrategies * MaxRetries
    /\ youtube_failed
    /\ alternative_sources # <<>>

\* C26: every discovered source of the archive search has priority 1 and every one of
\* the YouTube search priority 2, at whichever position of the accumulated, returned
\* or working list it stands and whichever variant produced it
C26_PriorityByCapability ==
    \A list \in {alternative_sources, unique_sources, working_alternatives} :
        \A i \in 1..Len(list) :
            \/ list[i].source_type = "archive" /\ list[i].priority = 1
            \/ list[i].source_type = "youtube" /\ list[i].priority = 2

C26_Witness ==
    /\ pc = "found"
    /\ Len(unique_sources) = 2
    /\ unique_sources[1].source_type = "youtube"
    /\ unique_sources[2].source_type = "archive"
    /\ unique_sources[2].priority < unique_sources[1].priority
    /\ Len(alternative_sources) > 4

\* C27: during a download_webisode call the item stays as it was passed: the sources
\* the call works on are the item's own, sorted, with url, priority and working
\* untouched, the item's list is never written, and a source that is probed or
\* discovered is not one of the item's
C27_ItemUnchanged ==
    /\ [](pc # "idle" =>
            /\ all_sources = sorted(webisode.sources)
            /\ Len(all_sources) = Len(webisode.sources)
            /\ \A i \in 1..Len(webisode.sources) : webisode.sources[i].working = "None"
            /\ \A i \in 1..Len(unique_sources) :
                  unique_sources[i].source_type \in {"archive", "youtube"}
            /\ \A i \in 1..Len(webisode.sources) :
                  webisode.sources[i].source_type = "generic")
    /\ [][pc # "idle" => webisode' = webisode]_vars

C27_Witness ==
    /\ Returned
    /\ ret = "False"
    /\ Len(webisode.sources) = MaxKnown
    /\ \E p \in Events : trace[p].op = "probe" /\ trace[p].res = "True"
    /\ \E p \in Events : trace[p].op = "probe" /\ trace[p].res = "False"
    /\ \A i \in 1..Len(webisode.sources) : webisode.sources[i].working = "None"

\* C28: a download thread runs only after the one mkdir call of its start_download
\* call, and when mkdir fails nothing is started: no thread, no download_webisode
\* call, no second mkdir call, Stats and downloading as they were
C28_MkdirFailureAborts ==
    /\ [](worker # "none" =>
            (mkdir_calls = 1 /\ start_result \in {"started", "refused"}))
    /\ [](pc # "idle" => mkdir_calls = 1)
    /\ [](start_result = "mkdir_failed" =>
            /\ mkdir_calls = 1
            /\ worker = "none"
            /\ ~downloading
            /\ pc = "idle"
            /\ download_stats = run_entry)
    /\ [][start_result' = "mkdir_failed" =>
              /\ UNCHANGED <<core, downloading, worker, total_webisodes, run_i>>
              /\ workers' <= workers]_vars

C28_Witness ==
    /\ start_result = "mkdir_failed"
    /\ download_stats.attempted = 2
    /\ download_stats.successful = 1

\* C29 as stated: at any time at most one download thread is running
C29_AtMostOneThread == workers <= 1

\* C29: a download thread is started only while no run is in progress, so at most one
\* thread is in the loop over the items, every other running thread having cleared
\* downloading already; start_download while downloading is set starts nothing and
\* changes nothing; a download_webisode call is in progress only inside one iteration
\* of that thread, which takes its next item only after the call returned
C29_OneWorkerSequentialItems ==
    /\ [][workers' > workers =>
              /\ ~downloading /\ worker = "none" /\ pc = "idle"
              /\ downloading' /\ workers' = workers + 1]_vars
    /\ [](worker # "none" => (downloading /\ workers >= 1))
    /\ [](pc # "idle" => worker = "item")
    /\ [](worker = "check" => pc = "idle")
    /\ [](worker # "none" =>
            download_stats.attempted - run_entry.attempted
              = run_i + (IF worker = "item" THEN 1 ELSE 0))
    /\ [][(start_result' = "refused" /\ start_result # "refused") =>
              UNCHANGED <<core, downloading, worker, total_webisodes, run_i, run_entry,
                          workers>>]_vars

C29_Witness ==
    /\ start_result = "refused"
    /\ workers = 2
    /\ worker = "item"
    /\ pc = "probe"
    /\ run_i = 1
    /\ total_webisodes = 2

\* C30: the four counters are 0 when the downloader is created, every step leaves
\* each of them as it is or raises it by 1, and attempted counts the download_webisode
\* calls of all runs so far
C30_CountersOnlyGrow ==
    /\ calls = 0 => download_stats = ZeroStats
    /\ [](download_stats.attempted = calls)
    /\ [][\A key \in DOMAIN download_stats :
              download_stats'[key] \in {download_stats[key], download_stats[key] + 1}]_vars
    /\ [][Cardinality({key \in DOMAIN download_stats :
                           download_stats'[key] # download_stats[key]}) <= 1]_vars

C30_Witness ==
    /\ worker = "check"
    /\ run_i = 1
    /\ run_entry.attempted = 2
    /\ run_entry.alternatives_used = 1
    /\ download_stats.attempted = 3
    /\ download_stats.successful = 2

\* C32: the k-th fetch of a download_with_source_retry call (k = 0, 1, ...) is made
\* with a socket timeout of 30 + 15 * k seconds, later attempts of the call have
\* strictly larger timeouts, and every one of them exceeds the 10 seconds of test_source
C32_TimeoutEscalates ==
    /\ \A i \in RetryFetches :
          /\ retry_log[i].timeout = 30 + 15 * retry_log[i].attempt
          /\ retry_log[i].attempt = Cardinality({j \in RetryFetches : j < i})
          /\ retry_log[i].timeout > ProbeTimeout
    /\ \A i, j \in RetryFetches : i < j => retry_log[i].timeout < retry_log[j].timeout

C32_Witness ==
    /\ retry_pc = "idle"
    /\ retry_ret = "False"
    /\ Cardinality(RetryFetches) = 4
    /\ \E i \in RetryFetches : retry_log[i].timeout = 75

\* C31: a fetch during which the progress callback raised is not followed by a backoff
\* or by another fetch of the call, and the call returns True
C31_ProgressFailureNonFatal ==
    \A i \in RetryFetches :
        retry_log[i].res \in ProgressResults =>
            /\ i = Len(retry_log)
            /\ retry_pc = "idle"
            /\ retry_ret = "True"

\* C33: the call moves through its phases (not entered, known sources, discovery,
\* probing, discovered sources, returned) in this order only, skipping but never going
\* back; the events of the history are in the order of their phases, so every probe
\* comes after the discovery call and before every fetch of a discovered source
C33_PhasesInOrder ==
    /\ [][CallPhase' >= CallPhase]_vars
    /\ [](\A i \in 1..(Len(trace) - 1) : EventPhase(trace[i]) <= EventPhase(trace[i + 1]))
    /\ [](\A e \in Events : EventPhase(trace[e]) <= CallPhase)
    /\ [](\A p \in Events :
            trace[p].op = "probe" =>
              /\ \E d \in 1..(p - 1) : trace[d].op = "discover"
              /\ \A f \in 1..(p - 1) : ~DiscoveredFetch(f))

C33_Witness ==
    /\ Returned
    /\ \E k, d, p, q, f \in Events :
          /\ k < d /\ d < p /\ p < q /\ q < f
          /\ KnownFetch(k)
          /\ trace[d].op = "discover"
          /\ trace[p].op = "probe"
          /\ ProbedReachable(q)
          /\ DiscoveredFetch(f)

\* C34: the pauses of download_webisode: one follows the last failed attempt on a
\* source and nothing else, of 1 second after a known source and of 2 seconds after a
\* discovered one; a failed attempt that is not the last is followed by the backoff of
\* download_with_source_retry, a successful one by nothing
C34_PacingBetweenSources ==
    /\ [](KnownPause < AlternativePause)
    /\ [](\A i \in Events :
          trace[i].op = "pace" =>
            /\ i > 1
            /\ trace[i - 1].op = "fetch"
            /\ trace[i - 1].res = "fail"
            /\ trace[i - 1].n = MaxAttempts - 1
            /\ trace[i - 1].url = trace[i].url
            /\ trace[i - 1].known = trace[i].known
            /\ trace[i].n = (IF trace[i].known THEN 1 ELSE 2))
    /\ [](\A i \in Events :
          trace[i].op = "fetch" =>
            CASE trace[i].res = "ok" -> i = Len(trace)
              [] trace[i].n < MaxAttempts - 1 ->
                    /\ i < Len(trace)
                    /\ trace[i + 1].op = "backoff"
                    /\ i + 1 < Len(trace) =>
                          (trace[i + 2].op = "fetch" /\ trace[i + 2].url = trace[i].url)
              [] OTHER ->
                    /\ i < Len(trace)
                    /\ trace[i + 1].op = "pace"
                    /\ \A j \in Events :
                          (j > i /\ trace[j].op = "fetch") =>
                              (trace[j].url # trace[i].url \/ trace[j].known # trace[i].known))

C34_Witness ==
    /\ Returned
    /\ ret = "True"
    /\ \E i, j \in Events :
          /\ trace[i].op = "pace" /\ trace[i].known /\ trace[i].n = 1
          /\ trace[j].op = "pace" /\ ~trace[j].known /\ trace[j].n = 2

\* C39: known sources of equal priority are fetched in the order of the item's sources
\* list, and the order of the known sources is the one the list determines: by
\* priority, and by position in the list among equal priorities (each fetch of a known
\* source is compared with the next one)
C39_StableOrder ==
    /\ [](LET fetched == SelectSeq(trace, LAMBDA e : e.op = "fetch" /\ e.known)
          IN \A k \in 1..(Len(fetched) - 1) :
                \/ fetched[k].priority < fetched[k + 1].priority
                \/ /\ fetched[k].priority = fetched[k + 1].priority
                   /\ fetched[k].url <= fetched[k + 1].url)
    /\ [](pc # "idle" =>
            /\ Len(all_sources) = Len(webisode.sources)
            /\ \A k \in 1..Len(webisode.sources) :
                  \E a \in 1..Len(all_sources) : all_sources[a] = webisode.sources[k]
            /\ \A a, b \in 1..Len(all_sources) :
                  a < b =>
                    \/ all_sources[a].priority < all_sources[b].priority
                    \/ /\ all_sources[a].priority = all_sources[b].priority
                       /\ all_sources[a].url < all_sources[b].url)

C39_Witness ==
    /\ Len(webisode.sources) = 3
    /\ webisode.sources[1].priority > webisode.sources[2].priority
    /\ webisode.sources[2].priority = webisode.sources[3].priority
    /\ \E i, j, k \in Events :
          /\ i < j /\ j < k
          /\ KnownFetch(i) /\ trace[i].url = 2
          /\ KnownFetch(j) /\ trace[j].url = 3
          /\ KnownFetch(k) /\ trace[k].url = 1

\* C35: a download_webisode call on an item of n known sources makes at most
\* 3 * n + 15 fetches, one find_alternatives call and 5 test_source calls, and it
\* returns when every call it waits for returns or raises
C35_CallTerminates ==
    /\ [](Cardinality({f \in Events : trace[f].op = "fetch"})
            <= 3 * Len(webisode.sources) + 15)
    /\ [](Cardinality({d \in Events : trace[d].op = "discover"}) <= 1)
    /\ [](Cardinality({p \in Events : trace[p].op = "probe"}) <= 5)
    /\ (pc # "idle") ~> (pc = "idle" /\ ret \in {"True", "False"})

C35_Witness ==
    /\ Returned
    /\ ret = "False"
    /\ Len(webisode.sources) = 1
    /\ Cardinality({f \in Events : trace[f].op = "fetch"}) = 18
    /\ Cardinality({p \in Events : trace[p].op = "probe"}) = 5

\* C36: whatever max_retries download_webisode is called with, a source that is given up
\* has had exactly 3 failed fetches, numbered 0, 1, 2, no source is fetched more than 3
\* times, and every step of the call is a step the call with the default value of
\* max_retries can take in the same state, so the calls it makes are those of the default
C36_MaxRetriesIgnored ==
    /\ [][Call(Catalog(1), 1) \/ Search(1, 1, 1) \/ Steps]_core
    /\ [](\A i \in Events :
            trace[i].op = "pace" =>
              LET fetches == {f \in 1..(i - 1) :
                                /\ trace[f].op = "fetch"
                                /\ trace[f].url = trace[i].url
                                /\ trace[f].known = trace[i].known}
              IN /\ Cardinality(fetches) = 3
                 /\ {trace[f].n : f \in fetches} = {0, 1, 2}
                 /\ \A f \in fetches : trace[f].res = "fail")
    /\ [](\A f \in Events : trace[f].op = "fetch" => trace[f].n \in 0..2)
    /\ [](\A f \in Events :
            (trace[f].op = "fetch" /\ trace[f].res = "fail" /\ trace[f].n < 2)
                => (f < Len(trace) /\ trace[f + 1].op = "backoff"))
    /\ [][pc # "idle" => max_retries' = max_retries]_vars

C36_Witness ==
    /\ Returned
    /\ max_retries = 1
    /\ \E i, j \in Events :
          /\ trace[i].op = "pace" /\ trace[i].known
          /\ trace[j].op = "pace" /\ ~trace[j].known

\* C37: a download thread that was started reaches its end with downloading cleared,
\* after the last item, after a cancellation and after an exception alike; whenever no
\* thread is in download_webisodes downloading is clear, so start_download is accepted;
\* and while the thread is in download_webisodes downloading is set unless it was
\* cleared from outside
C37_RunEndsFlagCleared ==
    /\ (worker # "none") ~> (worker = "none" /\ ~downloading)
    /\ [](worker = "none" => ~downloading)
    /\ []((worker # "none" /\ cancelled = NotCancelled) => downloading)
    /\ [][(worker # "none" /\ worker' = "none") =>
              (~downloading' /\ run_end' \in {"completed", "error"})]_vars

C37_Witness ==
    /\ worker = "item"
    /\ downloading
    /\ start_result = "started"
    /\ run_end = "none"
    /\ run_entry.attempted = 1
    /\ run_entry.successful + run_entry.failed = 0

\* C38: an exception that leaves the try block of download_webisodes ends the loop:
\* control goes to the except clause and from there only to the end of the run, where
\* the error has been logged and downloading is cleared as after the last item; no
\* download_webisode call is made and no item is taken from the exception on
C38_ExceptionEndsRun ==
    /\ [](run_end = "raised" <=> worker = "except")
    /\ [](worker = "except" => pc = "idle")
    /\ [][worker' = "except" =>
              /\ calls' = calls
              /\ run_i' = run_i
              /\ download_stats' = download_stats]_vars
    /\ [][worker = "except" =>
              \/ UNCHANGED <<core, worker, run_i, run_end>>
              \/ /\ worker' = "none"
                 /\ run_end' = "error"
                 /\ ~downloading'
                 /\ UNCHANGED <<core, run_i>>]_vars
    /\ [](run_end = "error" =>
            /\ worker = "none"
            /\ ~downloading
            /\ pc = "idle"
            /\ download_stats.attempted - run_entry.attempted \in {run_i, run_i + 1}
            /\ download_stats.attempted - run_entry.attempted <= total_webisodes)

C38_Witness ==
    /\ run_end = "error"
    /\ cancelled = NotCancelled
    /\ total_webisodes = 3
    /\ run_i = 1
    /\ ret = "Raised"
    /\ download_stats.attempted = 2

====
